---------------------------- MODULE Spec2Model ----------------------------
(***************************************************************************)
(* A model of finagg's SEC quarterly feature pipeline                      *)
(* (src/src/finagg/sec/feat/_refined/quarterly.py and                      *)
(* src/src/finagg/sec/features.py): the refined feature table, the write   *)
(* and read of wide feature tables, the de-duplication of raw filings, the *)
(* normalisation of raw observations into features and the industry        *)
(* relative normalisation.                                                 *)
(*                                                                         *)
(* Floating point values are carried exactly.  A value is a pair <<n, d>>: *)
(* d > 0 is the rational n/d in lowest terms, <<1, 0>> is +infinity,       *)
(* <<-1, 0>> is -infinity and <<0, 0>> is NaN (a missing cell), which is   *)
(* what IEEE division by zero produces from the sign of the numerator.     *)
(* Dates are day numbers; every date of the model lies inside the default  *)
(* observation period ["1776-07-04", utils.today].                         *)
(***************************************************************************)
EXTENDS Integers, Sequences, FiniteSets

VARIABLES
    quarterly,   \* the refined feature table sql.quarterly: a set of long rows
    normalized_quarterly,  \* the table sql.normalized_quarterly, likewise
    quarterly_features,    \* the table sql.quarterly_features of features.py
    ret,         \* the outcome of the last call: what it returned or raised
    log,         \* history: the to_refined calls made so far, with outcomes
    prev,        \* history: sql.quarterly as it was before the last call
    cache,       \* the results functools.cache keeps for the class methods
    pool,        \* the multiprocessing pool of an install under way
    obs,         \* the raw observations handed to the function under study
    out          \* the table that function returned

vars ==
    <<quarterly, normalized_quarterly, quarterly_features, ret, log, prev,
      cache, pool, obs, out>>

-----------------------------------------------------------------------------
(* Bounds of the model.                                                    *)

MaxRows == 2     \* rows of a wide table handed to to_refined
MaxCalls == 2    \* to_refined calls in one behaviour
MaxObs == 2      \* raw observations handed to get_unique_filings
MaxPeriods == 2  \* quarterly reports handed to _normalize
MaxMembers == 3  \* companies with rows in the store when features are normalized
MaxInstalls == 2 \* install calls in one behaviour
MaxFilings == 2  \* filings in the raw store
MaxRuns == 1     \* runs of shark.sec.install in one behaviour

-----------------------------------------------------------------------------
(* Exact arithmetic on float values.                                       *)

Abs(i) == IF i < 0 THEN -i ELSE i

Sign(i) == IF i < 0 THEN -1 ELSE IF i > 0 THEN 1 ELSE 0

RECURSIVE GCD(_, _)
GCD(a, b) == IF b = 0 THEN a ELSE GCD(b, a % b)

\* n/d as a value; d = 0 gives the IEEE result of a division by zero.
Quot(n, d) ==
    IF d = 0 THEN <<Sign(n), 0>>
    ELSE LET g == GCD(Abs(n), Abs(d))
         IN  <<Sign(d) * (n \div g), Abs(d) \div g>>

Num(i) == <<i, 1>>
NaN == <<0, 0>>
PosInf == <<1, 0>>
NegInf == <<-1, 0>>

IsNaN(x) == x = NaN
IsInf(x) == x = PosInf \/ x = NegInf
IsFinite(x) == x[2] > 0

\* The operands of every arithmetic step of the pipeline are finite or NaN.
Sub(x, y) ==
    IF ~IsFinite(x) \/ ~IsFinite(y) THEN NaN
    ELSE Quot(x[1] * y[2] - y[1] * x[2], x[2] * y[2])

Add(x, y) ==
    IF ~IsFinite(x) \/ ~IsFinite(y) THEN NaN
    ELSE Quot(x[1] * y[2] + y[1] * x[2], x[2] * y[2])

Div(x, y) ==
    IF ~IsFinite(x) \/ ~IsFinite(y) THEN NaN
    ELSE Quot(x[1] * y[2], x[2] * y[1])

Mul(x, y) ==
    IF ~IsFinite(x) \/ ~IsFinite(y) THEN NaN
    ELSE Quot(x[1] * y[1], x[2] * y[2])

-----------------------------------------------------------------------------
(* Sequences and orders.                                                   *)

Range(s) == {s[i] : i \in DOMAIN s}

Reverse(s) == [i \in 1..Len(s) |-> s[Len(s) + 1 - i]]

\* Fiscal periods are strings, ordered as strings.
FpRank(fp) ==
    CASE fp = "FY" -> 0
      [] fp = "Q1" -> 1
      [] fp = "Q2" -> 2
      [] fp = "Q3" -> 3
      [] fp = "Q4" -> 4

\* Lexicographic order of (fy, fp, filed) index entries.
KeyLess(a, b) ==
    \/ a.fy < b.fy
    \/ a.fy = b.fy /\ FpRank(a.fp) < FpRank(b.fp)
    \/ a.fy = b.fy /\ a.fp = b.fp /\ a.filed < b.filed

KeyOf(r) == [fy |-> r.fy, fp |-> r.fp, filed |-> r.filed]

\* The keys of S in ascending order (DataFrame.sort_index).
RECURSIVE SortKeys(_)
SortKeys(S) ==
    IF S = {} THEN <<>>
    ELSE LET m == CHOOSE k \in S : \A o \in S : o = k \/ KeyLess(k, o)
         IN  <<m>> \o SortKeys(S \ {m})

IsSortedByIndex(rows) ==
    \A i \in 1..(Len(rows) - 1) : KeyLess(KeyOf(rows[i]), KeyOf(rows[i + 1]))

-----------------------------------------------------------------------------
(* The feature schema and the submissions table.                           *)

\* Quarterly.columns, in the class's order.
columns ==
    << "AssetsCurrent_pct_change", "DebtEquityRatio", "EarningsPerShare",
       "InventoryNet_pct_change", "LiabilitiesCurrent_pct_change",
       "NetIncomeLoss_pct_change", "OperatingIncomeLoss_pct_change",
       "PriceBookRatio", "QuickRatio", "ReturnOnEquity",
       "StockholdersEquity_pct_change", "WorkingCapitalRatio" >>

ColumnSet == Range(columns)

\* The index levels to_refined turns into columns with reset_index.
IndexLevels == {"fy", "fp", "filed"}

\* sql.submissions: one row per company, with its SIC code as digits.
submissions ==
    { [ticker |-> "GM",  cik |-> "0001467858", sic |-> <<3, 7, 1, 1>>],
      [ticker |-> "HOG", cik |-> "0000793952", sic |-> <<3, 7, 5, 1>>],
      [ticker |-> "F",   cik |-> "0000037996", sic |-> <<3, 7, 1, 2>>],
      [ticker |-> "KR",  cik |-> "0000056873", sic |-> <<5, 4, 1, 1>>] }

Tickers == {s.ticker : s \in submissions}

\* sql.get_cik: the cik of the submissions row of a ticker.
get_cik(ticker) == (CHOOSE s \in submissions : s.ticker = ticker).cik

\* Filing dates, as day numbers.
Dates == {1, 2}

\* The default observation period: start "1776-07-04", end utils.today.
DefaultStart == 0
DefaultEnd == 3

-----------------------------------------------------------------------------
(* Wide tables.  A wide table is [cols, rows]: the column names in order   *)
(* and the rows in order, a row being its (fy, fp, filed) index entry and  *)
(* its cells, vals[c] for every column c.                                   *)

WideRow(fy, fp, filed, vals) ==
    [fy |-> fy, fp |-> fp, filed |-> filed, vals |-> vals]

WideTable(cols, rows) == [cols |-> cols, rows |-> rows]

NoTable == WideTable(<<>>, <<>>)

\* Outcomes of a call.
Returned(op, ticker, arg, table, n) ==
    [op |-> op, ticker |-> ticker, err |-> "", arg |-> arg, table |-> table, n |-> n]

Raised(op, ticker, arg, err) ==
    [op |-> op, ticker |-> ticker, err |-> err, arg |-> arg, table |-> NoTable, n |-> 0]

-----------------------------------------------------------------------------
(* Quarterly.to_refined.                                                    *)

\* The unique key of sql.quarterly: (cik, fy, fp, name).
PrimaryKey(r) == <<r.cik, r.fy, r.fp, r.name>>

\* df.melt(["fy", "fp", "filed"], var_name="name", value_name="value") with
\* df["cik"] set: one long row per cell, column after column.
\* A melt that dates the cells of the first column a day after the rest.
MeltStaggered(cik, df) ==
    [i \in 1..(Len(df.cols) * Len(df.rows)) |->
        LET c == df.cols[((i - 1) \div Len(df.rows)) + 1]
            r == df.rows[((i - 1) % Len(df.rows)) + 1]
        IN  [cik |-> cik, fy |-> r.fy, fp |-> r.fp,
             filed |-> IF c = df.cols[1] THEN r.filed + 1 ELSE r.filed,
             name |-> c, value |-> r.vals[c]]]

Melt(cik, df) ==
    [i \in 1..(Len(df.cols) * Len(df.rows)) |->
        LET c == df.cols[((i - 1) \div Len(df.rows)) + 1]
            r == df.rows[((i - 1) % Len(df.rows)) + 1]
        IN  [cik |-> cik, fy |-> r.fy, fp |-> r.fp, filed |-> r.filed,
             name |-> c, value |-> r.vals[c]]]

\* The schema check of to_refined, made on the columns after reset_index:
\* set(df.columns) < set(cls.columns).
SchemaCheckFails(df) ==
    LET dfcols == IndexLevels \cup Range(df.cols)
    IN  dfcols \subseteq ColumnSet /\ dfcols # ColumnSet

\* conn.execute(insert, records) inside engine.begin(): the rows are
\* committed together, or the unique key rejects the statement and the
\* transaction is rolled back.
InsertViolatesKey(table, records) ==
    LET keys == {PrimaryKey(records[i]) : i \in DOMAIN records}
    IN  \/ \E t \in table : PrimaryKey(t) \in keys
        \/ Cardinality(keys) < Len(records)

InsertCommit(table, records) == table \cup Range(records)

\* A to_refined whose insert the key never refuses.
ToRefinedSchemaError(table, ticker, df) ==
    IF SchemaCheckFails(df) THEN "ValueError" ELSE ""

ToRefinedError(table, ticker, df) ==
    IF SchemaCheckFails(df) THEN "ValueError"
    ELSE IF InsertViolatesKey(table, Melt(get_cik(ticker), df))
         THEN "IntegrityError"
         ELSE ""

\* A to_refined that commits row by row: the rows the key accepts stay.
ToRefinedTablePartial(table, ticker, df) ==
    IF SchemaCheckFails(df) THEN table
    ELSE table \cup
         {r \in Range(Melt(get_cik(ticker), df)) :
             \A t \in table : PrimaryKey(t) # PrimaryKey(r)}

ToRefinedTable(table, ticker, df) ==
    IF ToRefinedError(table, ticker, df) = ""
    THEN InsertCommit(table, Melt(get_cik(ticker), df))
    ELSE table

ToRefinedCount(ticker, df) == Len(Melt(get_cik(ticker), df))

-----------------------------------------------------------------------------
(* Quarterly.from_refined.                                                  *)

\* A select whose join lacks the ticker condition.
SelectRefinedAnyTicker(table, ticker, start, end) ==
    {r \in table :
        /\ \E s \in submissions : s.cik = r.cik
        /\ r.filed >= start
        /\ r.filed <= end}

\* The select: rows of sql.quarterly joined to the submissions row of the
\* ticker, filed within [start, end].
SelectRefined(table, ticker, start, end) ==
    {r \in table :
        /\ \E s \in submissions : s.cik = r.cik /\ s.ticker = ticker
        /\ r.filed >= start
        /\ r.filed <= end}

\* df.pivot(index=["fy", "fp", "filed"], columns="name", values="value"):
\* the cell of an index entry and a name, NaN where the rows hold none.
PivotCell(rows, key, name) ==
    IF \E r \in rows : KeyOf(r) = key /\ r.name = name
    THEN (CHOOSE r \in rows : KeyOf(r) = key /\ r.name = name).value
    ELSE NaN

\* .pivot(...).sort_index() and df[cls.columns]: the rows in index order,
\* the columns in the class's order.
PivotRefined(rows) ==
    LET keys == SortKeys({KeyOf(r) : r \in rows})
    IN  WideTable(columns,
            [i \in 1..Len(keys) |->
                WideRow(keys[i].fy, keys[i].fp, keys[i].filed,
                        [c \in ColumnSet |-> PivotCell(rows, keys[i], c)])])

from_refined(table, ticker, start, end) ==
    LET rows == SelectRefined(table, ticker, start, end)
    IN  IF rows = {} THEN Raised("from_refined", ticker, NoTable, "NoResultFound")
        ELSE IF ~(ColumnSet \subseteq {r.name : r \in rows})
             THEN Raised("from_refined", ticker, NoTable, "KeyError")
             ELSE Returned("from_refined", ticker, NoTable, PivotRefined(rows),
                           Cardinality({KeyOf(r) : r \in rows}))

-----------------------------------------------------------------------------
(* The wide tables handed to to_refined.                                    *)

NameIndex(c) ==
    IF c \in ColumnSet THEN CHOOSE i \in DOMAIN columns : columns[i] = c
    ELSE Len(columns) + 1

\* The cell of column c in the row of a period: every column, period and
\* variant of a table has a value of its own.
CellValue(variant, fy, fp, c) ==
    Quot(NameIndex(c) + 20 * FpRank(fp) + 100 * (fy - 2020), variant + 1)

\* The index entries of the tables written in the store's behaviours: two
\* periods filed on the first date, and the earlier one also filed later.
InputKeys ==
    { [fy |-> 2020, fp |-> "Q2", filed |-> 1],
      [fy |-> 2021, fp |-> "Q1", filed |-> 1],
      [fy |-> 2020, fp |-> "Q2", filed |-> 2] }

InputKeySets ==
    {K \in SUBSET InputKeys : Cardinality(K) >= 1 /\ Cardinality(K) <= MaxRows}

InputTable(cols, keys, variant) ==
    WideTable(cols,
        [i \in 1..Len(keys) |->
            WideRow(keys[i].fy, keys[i].fp, keys[i].filed,
                    [c \in Range(cols) |->
                        CellValue(variant, keys[i].fy, keys[i].fp, c)])])

\* Tables with exactly the feature columns and their rows in index order;
\* for the tables filed on the first date also with other values and, past
\* one row, with the rows in reverse order.
FirstDateKeySets == {K \in InputKeySets : \A k \in K : k.filed = 1}

FullTables ==
    {InputTable(columns, SortKeys(K), 0) : K \in InputKeySets}
    \cup {InputTable(columns, SortKeys(K), 1) : K \in FirstDateKeySets}
    \cup {InputTable(columns, Reverse(SortKeys(K)), 0) : K \in FirstDateKeySets}

\* Other column layouts: permuted, with a further column, lacking a column.
OtherColumns ==
    { Reverse(columns),
      Append(columns, "Volume"),
      Tail(columns),
      Append(Tail(columns), "Volume") }

OtherTables ==
    {InputTable(cols, <<k>>, 0) :
        cols \in OtherColumns,
        k \in {k \in InputKeys : k.filed = 1 /\ k.fy = 2021}}

InputTables == FullTables \cup OtherTables

StoreTickers == {"GM", "HOG"}

-----------------------------------------------------------------------------
(* The feature store: writes and reads of wide tables.                      *)

\* No install is under way.
NoPool ==
    [active |-> FALSE, processes |-> 0, tasks |-> <<>>, next |-> 1,
     held |-> <<>>, handed |-> <<>>, results |-> <<>>, taken |-> 0,
     total_rows |-> 0]

NoCall == Raised("", "", NoTable, "")

Init ==
    /\ quarterly = {}
    /\ normalized_quarterly = {}
    /\ quarterly_features = {}
    /\ ret = NoCall
    /\ log = <<>>
    /\ prev = {}
    /\ cache = {}
    /\ pool = NoPool
    /\ obs = {}
    /\ out = NoTable

ToRefined(ticker, df) ==
    LET err == ToRefinedError(quarterly, ticker, df)
    IN  /\ Len(log) < MaxCalls
        /\ UNCHANGED cache
        /\ prev' = quarterly
        /\ quarterly' = ToRefinedTable(quarterly, ticker, df)
        /\ ret' = IF err = ""
                  THEN Returned("to_refined", ticker, df, NoTable,
                                ToRefinedCount(ticker, df))
                  ELSE Raised("to_refined", ticker, df, err)
        /\ log' = Append(log, [ticker |-> ticker, df |-> df, err |-> err])
        /\ UNCHANGED <<normalized_quarterly, obs, out, quarterly_features, pool>>

FromRefined(ticker) ==
    /\ ret' = from_refined(quarterly, ticker, DefaultStart, DefaultEnd)
    /\ UNCHANGED cache
    /\ prev' = quarterly
    /\ UNCHANGED <<normalized_quarterly, quarterly, log, obs, out,
                   quarterly_features, pool>>

Next ==
    \/ \E ticker \in StoreTickers, df \in InputTables : ToRefined(ticker, df)
    \/ \E ticker \in StoreTickers : FromRefined(ticker)

Spec == Init /\ [][Next]_vars

-----------------------------------------------------------------------------
(* Properties of the feature store.                                         *)

\* The tables to_refined has committed for a ticker, in order.
Wrote(ticker) ==
    SelectSeq(log, LAMBDA c : c.ticker = ticker /\ c.err = "")

\* The to_refined calls for a ticker that raised.
Rejected(ticker) ==
    SelectSeq(log, LAMBDA c : c.ticker = ticker /\ c.err # "")

Conforms(df) == ColumnSet \subseteq Range(df.cols)

\* A row of a wide table with its cells restricted to the feature columns.
FeatureRow(r) ==
    WideRow(r.fy, r.fp, r.filed, [c \in ColumnSet |-> r.vals[c]])

\* The read-back table equals the written one: the feature columns in the
\* class's order, the same index entries, the same cells, in index order.
SameTable(read, df) ==
    /\ read.cols = columns
    /\ Len(read.rows) = Len(df.rows)
    /\ Range(read.rows) = {FeatureRow(df.rows[i]) : i \in DOMAIN df.rows}
    /\ IsSortedByIndex(read.rows)

\* C1: a table with the twelve feature columns that to_refined has written
\* for a ticker holding no other rows is what from_refined (default period)
\* returns for that ticker: same index entries, the feature columns in the
\* fixed order, the same values.
C1_RoundTrip ==
    \A t \in Tickers :
        (/\ ret.op = "from_refined"
         /\ ret.ticker = t
         /\ Len(Wrote(t)) = 1
         /\ Conforms(Wrote(t)[1].df))
        => ret.err = "" /\ SameTable(ret.table, Wrote(t)[1].df)

\* A table of two rows handed over in reverse index order has been written,
\* another ticker holds rows too, and the table is read back.
C1_Witness ==
    /\ ret.op = "from_refined"
    /\ ret.err = ""
    /\ Len(Wrote(ret.ticker)) = 1
    /\ Len(Wrote(ret.ticker)[1].df.rows) = 2
    /\ ~IsSortedByIndex(Wrote(ret.ticker)[1].df.rows)
    /\ \E r \in quarterly : r.cik # get_cik(ret.ticker)

\* The keys of the long rows a to_refined call tries to insert.
KeysOfCall(ticker, df) ==
    {PrimaryKey(r) : r \in Range(Melt(get_cik(ticker), df))}

\* C2: a to_refined of rows whose (entity, fy, fp, name) the table already
\* holds raises the uniqueness violation and leaves the table as it was; a
\* read of the entity afterwards returns what the first write stored; and
\* the table never holds two rows with the same (entity, fy, fp, name).
C2_DuplicateWriteRejected ==
    /\ \A r1, r2 \in quarterly : PrimaryKey(r1) = PrimaryKey(r2) => r1 = r2
    /\ (/\ ret.op = "to_refined"
        /\ \E t \in prev : PrimaryKey(t) \in KeysOfCall(ret.ticker, ret.arg))
       => ret.err = "IntegrityError" /\ quarterly = prev
    /\ \A t \in Tickers :
          (/\ ret.op = "from_refined"
           /\ ret.ticker = t
           /\ Len(Wrote(t)) = 1
           /\ Len(Rejected(t)) >= 1
           /\ Conforms(Wrote(t)[1].df))
          => ret.err = "" /\ SameTable(ret.table, Wrote(t)[1].df)

\* The same table was written twice for a ticker, the second write raised
\* the uniqueness violation, and the ticker is read back.
C2_Witness ==
    /\ ret.op = "from_refined"
    /\ ret.err = ""
    /\ Len(Wrote(ret.ticker)) = 1
    /\ Len(Rejected(ret.ticker)) = 1
    /\ Rejected(ret.ticker)[1].err = "IntegrityError"
    /\ Rejected(ret.ticker)[1].df = Wrote(ret.ticker)[1].df

\* C3: to_refined raises ValueError whenever the table lacks one of the
\* twelve feature columns, and then inserts nothing.
C3_SchemaMismatchRaises ==
    (ret.op = "to_refined" /\ ~Conforms(ret.arg))
    => ret.err = "ValueError" /\ quarterly = prev

-----------------------------------------------------------------------------
(* get_unique_filings: the de-duplication of raw filings.                   *)
(*                                                                         *)
(* A raw observation is a row of the dataframe the SEC API client returns: *)
(* [fy, fp, filed, tag, form, units, value, frame].  The frame of an       *)
(* observation may be null; its other fields never are.                    *)

Null == "NaN"

TagRank(tag) ==
    CASE tag = "AssetsCurrent" -> 1
      [] tag = "EarningsPerShareBasic" -> 2
      [] tag = "InventoryNet" -> 3
      [] tag = "LiabilitiesCurrent" -> 4
      [] tag = "NetIncomeLoss" -> 5
      [] tag = "OperatingIncomeLoss" -> 6
      [] tag = "StockholdersEquity" -> 7

GroupOf(o) == [fy |-> o.fy, fp |-> o.fp, tag |-> o.tag]

\* Order of the group keys (fy, fp, tag).
GroupLess(a, b) ==
    \/ a.fy < b.fy
    \/ a.fy = b.fy /\ FpRank(a.fp) < FpRank(b.fp)
    \/ a.fy = b.fy /\ a.fp = b.fp /\ TagRank(a.tag) < TagRank(b.tag)

\* mask: the form, the fiscal periods of that form, and the units if given.
FilingMask(o, form, units) ==
    /\ o.form = form
    /\ (form = "10-K" => o.fp = "FY")
    /\ (form = "10-Q" => o.fp \in {"Q1", "Q2", "Q3", "Q4"})
    /\ (units # "" => o.units = units)

\* df[mask]: the positions of df that pass, in order.
RECURSIVE MaskedPositions(_, _, _, _)
MaskedPositions(df, form, units, i) ==
    IF i > Len(df) THEN <<>>
    ELSE (IF FilingMask(df[i], form, units) THEN <<i>> ELSE <<>>)
         \o MaskedPositions(df, form, units, i + 1)

\* A sort that orders by the filing date descending.
SortsBeforeDescending(df, i, j) ==
    \/ KeyLess(KeyOf(df[j]), KeyOf(df[i]))
    \/ KeyOf(df[i]) = KeyOf(df[j]) /\ i < j

\* Position i comes before position j in df.sort_values(["fy", "fp",
\* "filed"]): by the keys, and by position among equal keys (the sort of
\* several columns is stable).
SortsBefore(df, i, j) ==
    \/ KeyLess(KeyOf(df[i]), KeyOf(df[j]))
    \/ KeyOf(df[i]) = KeyOf(df[j]) /\ i < j

RECURSIVE SortPositions(_, _)
SortPositions(df, P) ==
    IF P = {} THEN <<>>
    ELSE LET m == CHOOSE i \in P : \A j \in P : j = i \/ SortsBefore(df, i, j)
         IN  <<m>> \o SortPositions(df, P \ {m})

\* GroupBy.first() of one column: the first value of the column that is
\* not null, in the order of the rows of the group; null if there is none.
RECURSIVE FirstNotNull(_, _, _)
FirstNotNull(df, positions, field) ==
    IF positions = <<>> THEN Null
    ELSE IF df[Head(positions)][field] # Null
         THEN df[Head(positions)][field]
         ELSE FirstNotNull(df, Tail(positions), field)

\* The value column is a float column: its null is NaN.
RECURSIVE FirstValue(_, _)
FirstValue(df, positions) ==
    IF positions = <<>> THEN NaN
    ELSE IF ~IsNaN(df[Head(positions)].value)
         THEN df[Head(positions)].value
         ELSE FirstValue(df, Tail(positions))

RECURSIVE SortGroups(_)
SortGroups(G) ==
    IF G = {} THEN <<>>
    ELSE LET m == CHOOSE g \in G : \A o \in G : o = g \/ GroupLess(g, o)
         IN  <<m>> \o SortGroups(G \ {m})

\* .groupby(["fy", "fp", "tag"], as_index=False).first(): one row per group
\* in the order of the group keys, every other column the first value of
\* the group that is not null.
GroupFirst(df, sorted) ==
    LET groups == SortGroups({GroupOf(df[sorted[k]]) : k \in DOMAIN sorted})
    IN  [g \in 1..Len(groups) |->
            LET members == SelectSeq(sorted,
                               LAMBDA i : GroupOf(df[i]) = groups[g])
            IN  [fy |-> groups[g].fy,
                 fp |-> groups[g].fp,
                 tag |-> groups[g].tag,
                 filed |-> df[Head(members)].filed,
                 form |-> df[Head(members)].form,
                 units |-> df[Head(members)].units,
                 value |-> FirstValue(df, members),
                 frame |-> FirstNotNull(df, members, "frame")]]

get_unique_filings(df, form, units) ==
    GroupFirst(df,
        SortPositions(df, Range(MaskedPositions(df, form, units, 1))))

-----------------------------------------------------------------------------
(* The behaviours of get_unique_filings: a dataframe of raw observations    *)
(* is built row by row and de-duplicated.                                   *)

\* The observations of the model, without their value.
ObservationKinds ==
    [fy : {2020}, fp : {"Q1", "FY"}, filed : Dates,
     tag : {"AssetsCurrent", "NetIncomeLoss"}, form : {"10-Q"},
     units : {"USD"}, frame : {Null, "CY2020Q1I"}]
    \cup
    [fy : {2020, 2021}, fp : {"Q1"}, filed : {1},
     tag : {"AssetsCurrent"}, form : {"10-Q", "10-K"},
     units : {"USD", "shares"}, frame : {Null}]
    \cup
    [fy : {2020}, fp : {"FY"}, filed : Dates,
     tag : {"AssetsCurrent"}, form : {"10-K"},
     units : {"USD"}, frame : {Null, "CY2020"}]

\* The n-th row of the dataframe carries the value n.
Observation(kind, n) ==
    [fy |-> kind.fy, fp |-> kind.fp, filed |-> kind.filed, tag |-> kind.tag,
     form |-> kind.form, units |-> kind.units, frame |-> kind.frame,
     value |-> Num(n)]

NoFilings == [done |-> FALSE, form |-> "", units |-> "", rows |-> <<>>]

InitUnique ==
    /\ quarterly = {}
    /\ normalized_quarterly = {}
    /\ quarterly_features = {}
    /\ ret = NoCall
    /\ log = <<>>
    /\ prev = {}
    /\ cache = {}
    /\ pool = NoPool
    /\ obs = <<>>
    /\ out = NoFilings

AddObservation(kind) ==
    /\ Len(obs) < MaxObs
    /\ obs' = Append(obs, Observation(kind, Len(obs) + 1))
    /\ out' = NoFilings
    /\ UNCHANGED <<normalized_quarterly, quarterly, ret, log, prev,
                   quarterly_features, cache, pool>>

GetUniqueFilings(form, units) ==
    /\ out' = [done |-> TRUE, form |-> form, units |-> units,
               rows |-> get_unique_filings(obs, form, units)]
    /\ UNCHANGED <<normalized_quarterly, quarterly, ret, log, prev, obs,
                   quarterly_features, cache, pool>>

NextUnique ==
    \/ \E kind \in ObservationKinds : AddObservation(kind)
    \/ \E form \in {"10-Q", "10-K"}, units \in {"", "USD"} :
          GetUniqueFilings(form, units)

SpecUnique == InitUnique /\ [][NextUnique]_vars

\* The observations that pass the form and units filter, by position.
Passing == {i \in DOMAIN obs : FilingMask(obs[i], out.form, out.units)}

PassingGroups == {GroupOf(obs[i]) : i \in Passing}

\* The earliest-filed observation of a group: the first of the group after
\* sorting ascending by (fy, fp, filed), rows of one date in dataframe order.
Earliest(P) ==
    CHOOSE i \in P :
        \A j \in P \ {i} :
            obs[i].filed < obs[j].filed \/ (obs[i].filed = obs[j].filed /\ i < j)

EarliestOf(g) == Earliest({i \in Passing : GroupOf(obs[i]) = g})

OneRowPerGroup ==
    /\ \A g \in PassingGroups :
          Cardinality({k \in DOMAIN out.rows : GroupOf(out.rows[k]) = g}) = 1
    /\ \A k \in DOMAIN out.rows : GroupOf(out.rows[k]) \in PassingGroups

\* C4: get_unique_filings returns exactly one row per (fy, fp, tag) of the
\* observations that pass the form and units filter, and the row's value,
\* filed date, form and units are those of the earliest-filed observation of
\* its group, the first after sorting ascending by (fy, fp, filed).  The
\* nullable frame column, which the claim does not name, is the first frame
\* of the sorted group that is not null (GroupBy.first skips nulls).
C4_UniqueFilings ==
    out.done =>
        /\ OneRowPerGroup
        /\ \A k \in DOMAIN out.rows :
              LET g == GroupOf(out.rows[k])
                  e == obs[EarliestOf(g)]
                  framed == {i \in Passing :
                                GroupOf(obs[i]) = g /\ obs[i].frame # Null}
              IN  /\ out.rows[k].value = e.value
                  /\ out.rows[k].filed = e.filed
                  /\ out.rows[k].form = e.form
                  /\ out.rows[k].units = e.units
                  /\ out.rows[k].frame =
                        IF framed = {} THEN Null ELSE obs[Earliest(framed)].frame

\* Two observations of one group pass the filter, the later row of the
\* dataframe was filed first, and the function has returned the group's row.
C4_Witness ==
    /\ out.done
    /\ Len(out.rows) = 1
    /\ \E i, j \in Passing :
          /\ i < j
          /\ GroupOf(obs[i]) = GroupOf(obs[j])
          /\ obs[j].filed < obs[i].filed

-----------------------------------------------------------------------------
(* Quarterly._normalize: raw observations to the wide feature table.        *)

\* The tags of Quarterly.concepts.
concepts ==
    << "AssetsCurrent", "EarningsPerShareBasic", "InventoryNet",
       "LiabilitiesCurrent", "NetIncomeLoss", "OperatingIncomeLoss",
       "StockholdersEquity" >>

\* The columns replaced by their percent changes, and the columns that hold
\* the changes, in the same order.
pct_change_source_columns ==
    << "AssetsCurrent", "InventoryNet", "LiabilitiesCurrent",
       "NetIncomeLoss", "OperatingIncomeLoss", "StockholdersEquity" >>

pct_change_target_columns ==
    << "AssetsCurrent_pct_change", "InventoryNet_pct_change",
       "LiabilitiesCurrent_pct_change", "NetIncomeLoss_pct_change",
       "OperatingIncomeLoss_pct_change", "StockholdersEquity_pct_change" >>

RatioColumns ==
    { "DebtEquityRatio", "EarningsPerShare", "PriceBookRatio", "QuickRatio",
      "ReturnOnEquity", "WorkingCapitalRatio" }

PeriodOf(r) == <<r.fy, r.fp>>

PeriodRank(p) == 10 * p[1] + FpRank(p[2])

\* A filed date taken as the earliest of the period.
MinFiled(df, p) ==
    LET ds == {df[i].filed : i \in {j \in DOMAIN df : PeriodOf(df[j]) = p}}
    IN  CHOOSE d \in ds : \A e \in ds : d <= e

\* df.groupby(["fy", "fp"])["filed"].max()
MaxFiled(df, p) ==
    LET ds == {df[i].filed : i \in {j \in DOMAIN df : PeriodOf(df[j]) = p}}
    IN  CHOOSE d \in ds : \A e \in ds : d >= e

\* The index of the pivoted table: one entry per (fy, fp) with the filed
\* date assigned to the period.
PivotIndex(df) ==
    {[fy |-> p[1], fp |-> p[2], filed |-> MaxFiled(df, p)] :
        p \in {PeriodOf(df[i]) : i \in DOMAIN df}}

\* pivot raises ValueError when an index entry holds a tag twice.
PivotHasDuplicates(df) ==
    \E i, j \in DOMAIN df :
        i < j /\ PeriodOf(df[i]) = PeriodOf(df[j]) /\ df[i].tag = df[j].tag

\* The cell of a tag in a period of the pivoted table.
TagCell(df, p, tag) ==
    IF \E i \in DOMAIN df : PeriodOf(df[i]) = p /\ df[i].tag = tag
    THEN df[CHOOSE i \in DOMAIN df : PeriodOf(df[i]) = p /\ df[i].tag = tag].value
    ELSE NaN

\* The five derived ratios and the copy of EarningsPerShareBasic, computed
\* on the cells of one row of the pivoted table.
DerivedCell(v, c) ==
    CASE c = "EarningsPerShare" -> v["EarningsPerShareBasic"]
      [] c = "DebtEquityRatio" ->
            Div(v["LiabilitiesCurrent"], v["StockholdersEquity"])
      [] c = "PriceBookRatio" ->
            Div(v["StockholdersEquity"],
                Sub(v["AssetsCurrent"], v["LiabilitiesCurrent"]))
      [] c = "QuickRatio" ->
            Div(Sub(v["AssetsCurrent"], v["InventoryNet"]),
                v["LiabilitiesCurrent"])
      [] c = "ReturnOnEquity" ->
            Div(v["NetIncomeLoss"], v["StockholdersEquity"])
      [] c = "WorkingCapitalRatio" ->
            Div(v["AssetsCurrent"], v["LiabilitiesCurrent"])

\* The cell of a tag in the i-th period, taken from the latest period up to
\* it that carries the tag.
RECURSIVE FilledTagCell(_, _, _, _)
FilledTagCell(df, keys, i, tag) ==
    LET x == TagCell(df, <<keys[i].fy, keys[i].fp>>, tag)
    IN  IF ~IsNaN(x) \/ i = 1 THEN x
        ELSE FilledTagCell(df, keys, i - 1, tag)

\* A pivoted table whose missing cells are filled forward before the
\* derived columns are computed.
PivotFilledWithRatios(df) ==
    LET keys == SortKeys(PivotIndex(df))
    IN  [i \in 1..Len(keys) |->
            LET v == [t \in Range(concepts) |-> FilledTagCell(df, keys, i, t)]
            IN  WideRow(keys[i].fy, keys[i].fp, keys[i].filed,
                    [c \in Range(concepts) \cup RatioColumns |->
                        IF c \in RatioColumns THEN DerivedCell(v, c) ELSE v[c]])]

\* The pivoted table with the derived columns added: rows in index order.
PivotWithRatios(df) ==
    LET keys == SortKeys(PivotIndex(df))
    IN  [i \in 1..Len(keys) |->
            LET p == <<keys[i].fy, keys[i].fp>>
                v == [t \in Range(concepts) |-> TagCell(df, p, t)]
            IN  WideRow(keys[i].fy, keys[i].fp, keys[i].filed,
                    [c \in Range(concepts) \cup RatioColumns |->
                        IF c \in RatioColumns THEN DerivedCell(v, c) ELSE v[c]])]

\* A replace that leaves the infinities in place.
KeepInf(x) == x

\* df.replace([-np.inf, np.inf], np.nan), on one cell.
ReplaceInf(x) == IF IsInf(x) THEN NaN ELSE x

\* .fillna(method="ffill"), on the cell of column c in row i: the last
\* value at or before row i that is not missing.
RECURSIVE FillForward(_, _, _)
FillForward(rows, i, c) ==
    LET x == ReplaceInf(rows[i].vals[c])
    IN  IF ~IsNaN(x) \/ i = 1 THEN x ELSE FillForward(rows, i - 1, c)

Filled(rows) ==
    [i \in DOMAIN rows |->
        WideRow(rows[i].fy, rows[i].fp, rows[i].filed,
                [c \in DOMAIN rows[i].vals |-> FillForward(rows, i, c)])]

\* Series.pct_change(): the value over the value of the row before, less 1.
PctChange(rows, i, c) ==
    IF i = 1 THEN NaN
    ELSE LET q == Div(rows[i].vals[c], rows[i - 1].vals[c])
         IN  IF IsFinite(q) THEN Sub(q, Num(1)) ELSE q

\* utils.safe_pct_change: the percent change with the infinities made
\* missing, the missing cells filled forward, and the cells still missing,
\* those of the first period, set to 0.
RECURSIVE safe_pct_change(_, _, _)
safe_pct_change(rows, i, c) ==
    LET x == PctChange(rows, i, c)
    IN  IF IsFinite(x) THEN x
        ELSE IF i = 1 THEN Num(0)
        ELSE safe_pct_change(rows, i - 1, c)

\* Percent-change columns computed without the fills.
PctChangeColumnsUnsafe(rows, i, c) ==
    IF \E k \in DOMAIN pct_change_target_columns :
            pct_change_target_columns[k] = c
    THEN LET k == CHOOSE k \in DOMAIN pct_change_target_columns :
                        pct_change_target_columns[k] = c
         IN  PctChange(rows, i, pct_change_source_columns[k])
    ELSE rows[i].vals[c]

\* df[targets] = df[sources].apply(utils.safe_pct_change): the cell of
\* column c in row i once the percent-change columns are assigned.
PctChangeColumns(rows, i, c) ==
    IF \E k \in DOMAIN pct_change_target_columns :
            pct_change_target_columns[k] = c
    THEN LET k == CHOOSE k \in DOMAIN pct_change_target_columns :
                        pct_change_target_columns[k] = c
         IN  safe_pct_change(rows, i, pct_change_source_columns[k])
    ELSE rows[i].vals[c]

\* df[cls.columns].dropna(): the feature columns, rows with a missing cell
\* removed.
SelectAndDrop(rows) ==
    SelectSeq(
        [i \in DOMAIN rows |->
            WideRow(rows[i].fy, rows[i].fp, rows[i].filed,
                    [c \in ColumnSet |-> PctChangeColumns(rows, i, c)])],
        LAMBDA r : \A c \in ColumnSet : ~IsNaN(r.vals[c]))

Normalized(err, table) == [done |-> TRUE, err |-> err, table |-> table]

_normalize(df) ==
    IF PivotHasDuplicates(df) THEN Normalized("ValueError", NoTable)
    ELSE IF ~(Range(concepts) \subseteq {df[i].tag : i \in DOMAIN df})
         THEN Normalized("KeyError", NoTable)
         ELSE Normalized("",
                  WideTable(columns, SelectAndDrop(Filled(PivotWithRatios(df)))))

-----------------------------------------------------------------------------
(* The behaviours of _normalize: the observations of a company arrive one   *)
(* quarterly report at a time and are normalized.                           *)

\* The periods in order, and the place of a period in that order.
PeriodSeq == << <<2020, "Q1">>, <<2020, "Q2">>, <<2021, "Q1">> >>

PeriodNumber(p) == CHOOSE n \in DOMAIN PeriodSeq : PeriodSeq[n] = p

\* The value a report of period number n gives a tag when nothing is amiss.
BaseValue(tag, n) ==
    CASE tag = "AssetsCurrent" -> Num(6 + 2 * n)
      [] tag = "EarningsPerShareBasic" -> Num(2 * n)
      [] tag = "InventoryNet" -> Num(n)
      [] tag = "LiabilitiesCurrent" -> Num(3 + n)
      [] tag = "NetIncomeLoss" -> Num(5 - 3 * n)
      [] tag = "OperatingIncomeLoss" -> Num(5 + n)
      [] tag = "StockholdersEquity" -> Num(7 + n)

\* The shapes of a report.
Profiles ==
    { "complete", "late", "restated", "no_equity", "no_liabilities",
      "no_equity_no_liabilities", "assets_equal_liabilities",
      "no_operating_income", "no_eps", "no_inventory" }

\* The value of a tag in a report of a shape; NaN where the report does not
\* carry the tag.
ReportValue(profile, tag, n) ==
    CASE profile \in {"no_equity", "no_equity_no_liabilities"}
            /\ tag = "StockholdersEquity" -> Num(0)
      [] profile \in {"no_liabilities", "no_equity_no_liabilities"}
            /\ tag = "LiabilitiesCurrent" -> Num(0)
      [] profile = "assets_equal_liabilities" /\ tag = "AssetsCurrent" ->
            BaseValue("LiabilitiesCurrent", n)
      [] profile = "no_operating_income" /\ tag = "OperatingIncomeLoss" -> NaN
      [] profile = "no_eps" /\ tag = "EarningsPerShareBasic" -> NaN
      [] profile = "no_inventory" /\ tag = "InventoryNet" -> NaN
      [] OTHER -> BaseValue(tag, n)

\* The report of period number n is filed on day n; a late report files
\* AssetsCurrent a day after the rest.
ReportFiled(profile, tag, n) ==
    IF profile = "late" /\ tag = "AssetsCurrent" THEN n + 1 ELSE n

RawRow(p, filed, tag, value) ==
    [fy |-> p[1], fp |-> p[2], filed |-> filed, tag |-> tag, value |-> value]

\* The observations of a report: one per tag it carries, and for a restated
\* report a second observation of AssetsCurrent filed a day later.
Report(profile, p) ==
    LET n == PeriodNumber(p)
        carried == SelectSeq(concepts,
                       LAMBDA t : ~IsNaN(ReportValue(profile, t, n)))
        rows == [k \in DOMAIN carried |->
                    RawRow(p, ReportFiled(profile, carried[k], n), carried[k],
                           ReportValue(profile, carried[k], n))]
    IN  IF profile = "restated"
        THEN Append(rows, RawRow(p, n + 1, "AssetsCurrent", Num(1)))
        ELSE rows

NotNormalized == [done |-> FALSE, err |-> "", table |-> NoTable]

InitNormalize ==
    /\ quarterly = {}
    /\ normalized_quarterly = {}
    /\ quarterly_features = {}
    /\ ret = NoCall
    /\ log = <<>>
    /\ prev = {}
    /\ cache = {}
    /\ pool = NoPool
    /\ obs = <<>>
    /\ out = NotNormalized

AddReport(profile, p) ==
    /\ \A i \in DOMAIN obs : PeriodOf(obs[i]) # p
    /\ Cardinality({PeriodOf(obs[i]) : i \in DOMAIN obs}) < MaxPeriods
    /\ obs' = obs \o Report(profile, p)
    /\ out' = NotNormalized
    /\ UNCHANGED <<normalized_quarterly, quarterly, ret, log, prev,
                   quarterly_features, cache, pool>>

Normalize ==
    /\ out' = _normalize(obs)
    /\ UNCHANGED <<normalized_quarterly, quarterly, ret, log, prev, obs,
                   quarterly_features, cache, pool>>

NextNormalize ==
    \/ \E profile \in Profiles, p \in Range(PeriodSeq) : AddReport(profile, p)
    \/ Normalize

SpecNormalize == InitNormalize /\ [][NextNormalize]_vars

\* What the observations say of a period, read off the input directly.
ObsPeriods == {PeriodOf(obs[i]) : i \in DOMAIN obs}

ObsOf(p) == {i \in DOMAIN obs : PeriodOf(obs[i]) = p}

ObsValue(p, tag) ==
    LET at == {i \in ObsOf(p) : obs[i].tag = tag}
    IN  IF at = {} THEN NaN ELSE obs[CHOOSE i \in at : TRUE].value

Numerator(c, p) ==
    CASE c = "DebtEquityRatio" -> ObsValue(p, "LiabilitiesCurrent")
      [] c = "PriceBookRatio" -> ObsValue(p, "StockholdersEquity")
      [] c = "QuickRatio" ->
            Sub(ObsValue(p, "AssetsCurrent"), ObsValue(p, "InventoryNet"))
      [] c = "ReturnOnEquity" -> ObsValue(p, "NetIncomeLoss")
      [] c = "WorkingCapitalRatio" -> ObsValue(p, "AssetsCurrent")
      [] c = "EarningsPerShare" -> ObsValue(p, "EarningsPerShareBasic")

Denominator(c, p) ==
    CASE c \in {"DebtEquityRatio", "ReturnOnEquity"} ->
            ObsValue(p, "StockholdersEquity")
      [] c = "PriceBookRatio" ->
            Sub(ObsValue(p, "AssetsCurrent"), ObsValue(p, "LiabilitiesCurrent"))
      [] c \in {"QuickRatio", "WorkingCapitalRatio"} ->
            ObsValue(p, "LiabilitiesCurrent")
      [] c = "EarningsPerShare" -> Num(1)

RatioAt(c, p) == Div(Numerator(c, p), Denominator(c, p))

DividesByZero(c, p) ==
    IsFinite(Numerator(c, p)) /\ Denominator(c, p) = Num(0)

\* The periods at or before p in which the ratio c is valid.
ValidUpTo(c, p) ==
    {q \in ObsPeriods :
        PeriodRank(q) <= PeriodRank(p) /\ IsFinite(RatioAt(c, q))}

LastValid(c, p) ==
    CHOOSE q \in ValidUpTo(c, p) :
        \A r \in ValidUpTo(c, p) : PeriodRank(r) <= PeriodRank(q)

NormalizeReturned == out.done /\ out.err = ""

RowsOf(p) == {k \in DOMAIN out.table.rows : PeriodOf(out.table.rows[k]) = p}

FirstPeriod ==
    CHOOSE p \in ObsPeriods : \A q \in ObsPeriods : PeriodRank(p) <= PeriodRank(q)

\* C5: the table _normalize produces has at most one row per (fy, fp), has
\* exactly one for every period in which each feature is present after the
\* fills, and the filed date of a row is the maximum filed date over all the
\* input observations of its (fy, fp).
C5_OneRowPerPeriodMaxFiled ==
    NormalizeReturned =>
        /\ \A k \in DOMAIN out.table.rows :
              PeriodOf(out.table.rows[k]) \in ObsPeriods
        /\ \A p \in ObsPeriods :
              /\ Cardinality(RowsOf(p)) <= 1
              /\ (\A c \in RatioColumns : ValidUpTo(c, p) # {})
                    => Cardinality(RowsOf(p)) = 1
              /\ \A k \in RowsOf(p) :
                    /\ \A i \in ObsOf(p) : obs[i].filed <= out.table.rows[k].filed
                    /\ \E i \in ObsOf(p) : obs[i].filed = out.table.rows[k].filed

\* A period whose tags were filed on different dates has its row, dated by
\* the later filing.
C5_Witness ==
    /\ NormalizeReturned
    /\ \E p \in ObsPeriods :
          /\ \E i, j \in ObsOf(p) : obs[i].filed < obs[j].filed
          /\ RowsOf(p) # {}
    /\ \E p \in ObsPeriods : RowsOf(p) = {}

\* C6: a derived ratio whose division is by zero is missing for that period:
\* the output cell is the ratio of the most recent period at or before it in
\* which the ratio is valid, and when there is no such period the period has
\* no row.  No ratio cell of the output is infinite or missing.
C6_DivisionByZeroFilledOrDropped ==
    NormalizeReturned =>
        \A p \in ObsPeriods, c \in RatioColumns :
            /\ \A k \in RowsOf(p) :
                  /\ IsFinite(out.table.rows[k].vals[c])
                  /\ ValidUpTo(c, p) # {}
                  /\ out.table.rows[k].vals[c] = RatioAt(c, LastValid(c, p))
            /\ (DividesByZero(c, p) /\ ValidUpTo(c, p) = {}) => RowsOf(p) = {}

\* A period with a division by zero has a row, filled from an earlier period.
C6_Witness ==
    /\ NormalizeReturned
    /\ \E p \in ObsPeriods, c \in RatioColumns :
          /\ DividesByZero(c, p)
          /\ RowsOf(p) # {}
          /\ LastValid(c, p) # p

\* C7: the six percent-change columns of the first period of the table are
\* 0 and not missing: the first period has its row exactly when its ratios
\* are valid, and the six cells of that row are 0; a single-period input
\* with valid ratios yields one row with six zeros.
C7_FirstPeriodPctChangeZero ==
    NormalizeReturned =>
        /\ RowsOf(FirstPeriod) # {}
              <=> \A c \in RatioColumns : IsFinite(RatioAt(c, FirstPeriod))
        /\ \A k \in RowsOf(FirstPeriod) :
              \A n \in DOMAIN pct_change_target_columns :
                  out.table.rows[k].vals[pct_change_target_columns[n]] = Num(0)
        /\ (Cardinality(ObsPeriods) = 1
              /\ \A c \in RatioColumns : IsFinite(RatioAt(c, FirstPeriod)))
                 => Len(out.table.rows) = 1

\* A single-period input has been normalized to one row with six zeros.
C7_Witness ==
    /\ NormalizeReturned
    /\ Cardinality(ObsPeriods) = 1
    /\ Len(out.table.rows) = 1
    /\ \A n \in DOMAIN pct_change_target_columns :
          out.table.rows[1].vals[pct_change_target_columns[n]] = Num(0)

\* The tags a ratio is computed from.
SourceTags(c) ==
    CASE c = "DebtEquityRatio" -> {"LiabilitiesCurrent", "StockholdersEquity"}
      [] c = "PriceBookRatio" ->
            {"StockholdersEquity", "AssetsCurrent", "LiabilitiesCurrent"}
      [] c = "QuickRatio" ->
            {"AssetsCurrent", "InventoryNet", "LiabilitiesCurrent"}
      [] c = "ReturnOnEquity" -> {"NetIncomeLoss", "StockholdersEquity"}
      [] c = "WorkingCapitalRatio" -> {"AssetsCurrent", "LiabilitiesCurrent"}
      [] c = "EarningsPerShare" -> {"EarningsPerShareBasic"}

\* A source tag of the ratio was not filed in the period.
NotRefiled(c, p) == \E t \in SourceTags(c) : IsNaN(ObsValue(p, t))

\* The last known value of a tag at a period: that of the latest period at
\* or before it that carries the tag.
LastKnown(p, tag) ==
    LET known == {q \in ObsPeriods :
                     PeriodRank(q) <= PeriodRank(p) /\ ~IsNaN(ObsValue(q, tag))}
    IN  IF known = {} THEN NaN
        ELSE ObsValue(CHOOSE q \in known :
                          \A r \in known : PeriodRank(r) <= PeriodRank(q),
                      tag)

\* The ratio computed from the last known values of its tags.
RatioOfLastKnown(c, p) ==
    CASE c = "DebtEquityRatio" ->
            Div(LastKnown(p, "LiabilitiesCurrent"),
                LastKnown(p, "StockholdersEquity"))
      [] c = "PriceBookRatio" ->
            Div(LastKnown(p, "StockholdersEquity"),
                Sub(LastKnown(p, "AssetsCurrent"),
                    LastKnown(p, "LiabilitiesCurrent")))
      [] c = "QuickRatio" ->
            Div(Sub(LastKnown(p, "AssetsCurrent"),
                    LastKnown(p, "InventoryNet")),
                LastKnown(p, "LiabilitiesCurrent"))
      [] c = "ReturnOnEquity" ->
            Div(LastKnown(p, "NetIncomeLoss"),
                LastKnown(p, "StockholdersEquity"))
      [] c = "WorkingCapitalRatio" ->
            Div(LastKnown(p, "AssetsCurrent"),
                LastKnown(p, "LiabilitiesCurrent"))
      [] c = "EarningsPerShare" -> LastKnown(p, "EarningsPerShareBasic")

\* C24 as stated: the missing cells of the pivoted table are filled forward
\* before the ratios are computed, so the ratio of a period in which a
\* source tag was not filed again is computed from that tag's last known
\* value and the period's own values of the other tags.
C24_FilledBeforeRatios ==
    NormalizeReturned =>
        \A p \in ObsPeriods, c \in RatioColumns :
            (NotRefiled(c, p) /\ IsFinite(RatioOfLastKnown(c, p)))
                => \A k \in RowsOf(p) :
                      out.table.rows[k].vals[c] = RatioOfLastKnown(c, p)

\* C24, amended: the ratios are computed on the cells of the period as
\* pivoted, before any fill.  The ratio of a period in which a source tag
\* was not filed is missing, and the forward fill that follows gives it
\* the ratio of the latest earlier period in which it is valid, all of
\* whose operands are that period's; with no such period the period has
\* no row.
C24_RatiosBeforeFill ==
    NormalizeReturned =>
        \A p \in ObsPeriods, c \in RatioColumns :
            NotRefiled(c, p) =>
                /\ ValidUpTo(c, p) = {} => RowsOf(p) = {}
                /\ \A k \in RowsOf(p) :
                      /\ LastValid(c, p) # p
                      /\ out.table.rows[k].vals[c] =
                             Div(Numerator(c, LastValid(c, p)),
                                 Denominator(c, LastValid(c, p)))

\* A period lacks a source tag of a ratio, has its row, and the ratio of
\* the earlier period it carries is not the one the last known values
\* give.
C24_Witness ==
    /\ NormalizeReturned
    /\ \E p \in ObsPeriods, c \in RatioColumns :
          /\ NotRefiled(c, p)
          /\ RowsOf(p) # {}
          /\ IsFinite(RatioOfLastKnown(c, p))
          /\ RatioOfLastKnown(c, p) # RatioAt(c, LastValid(c, p))

-----------------------------------------------------------------------------
(* IndustryQuarterly.from_refined: the statistics of an industry.          *)

\* An industry code that is the whole SIC code, whatever the level.
IndustryCodeWhole(ticker, level) ==
    (CHOOSE s \in submissions : s.ticker = ticker).sic

\* str(sic)[:level]
IndustryCode(ticker, level) ==
    SubSeq((CHOOSE s \in submissions : s.ticker = ticker).sic, 1, level)

\* sql.submissions.c.sic.startswith(code)
StartsWith(sic, code) ==
    Len(code) <= Len(sic) /\ SubSeq(sic, 1, Len(code)) = code

\* A select that joins every company, whatever its SIC code.
SelectAllIndustries(table, code, start, end) ==
    {r \in table :
        /\ \E s \in submissions : s.cik = r.cik
        /\ r.filed >= start
        /\ r.filed <= end}

\* The rows of sql.quarterly of the companies whose SIC code starts with
\* the industry code, filed within [start, end].
SelectIndustry(table, code, start, end) ==
    {r \in table :
        /\ \E s \in submissions : s.cik = r.cik /\ StartsWith(s.sic, code)
        /\ r.filed >= start
        /\ r.filed <= end}

\* group_by(fy, fp, name): the rows of one group.
IndustryGroup(rows, p, name) ==
    {r \in rows : PeriodOf(r) = p /\ r.name = name}

RECURSIVE SumOf(_)
SumOf(S) ==
    IF S = {} THEN Num(0)
    ELSE LET r == CHOOSE r \in S : TRUE
         IN  Add(r.value, SumOf(S \ {r}))

\* sa.func.avg(value)
Avg(S) == Div(SumOf(S), Num(Cardinality(S)))

RECURSIVE SumOfSquares(_, _)
SumOfSquares(S, mean) ==
    IF S = {} THEN Num(0)
    ELSE LET r == CHOOSE r \in S : TRUE
             d == Sub(r.value, mean)
         IN  Add(Mul(d, d), SumOfSquares(S \ {r}, mean))

\* sa.func.std(value), the sample standard deviation, carried by its
\* square: the sum of squared deviations over n - 1, missing for one value.
Variance(S) ==
    IF Cardinality(S) < 2 THEN NaN
    ELSE Div(SumOfSquares(S, Avg(S)), Num(Cardinality(S) - 1))

\* The earliest filed date of a group.
GroupFiledMin(S) ==
    LET ds == {r.filed : r \in S}
    IN  CHOOSE d \in ds : \A e \in ds : d <= e

\* sa.func.max(filed) of a group.
GroupFiled(S) ==
    LET ds == {r.filed : r \in S}
    IN  CHOOSE d \in ds : \A e \in ds : d >= e

\* The industry table after pivot and reset_index(["filed"]): the periods
\* of its index and, per period and name, the cells of "avg" and "std".
IndustryPeriods(rows) == {PeriodOf(r) : r \in rows}

IndustryAvg(rows, p, name) ==
    IF IndustryGroup(rows, p, name) = {} THEN NaN
    ELSE Avg(IndustryGroup(rows, p, name))

IndustryStd(rows, p, name) ==
    IF IndustryGroup(rows, p, name) = {} THEN NaN
    ELSE Variance(IndustryGroup(rows, p, name))

-----------------------------------------------------------------------------
(* NormalizedQuarterly.from_other_refined.                                 *)
(*                                                                         *)
(* A normalized value z is carried by z * |z|, which is rational where z   *)
(* is a quotient by a square root: z * |z| = d * |d| / variance for        *)
(* d = value - avg.  z is 1 exactly when z * |z| is 1, and 0 when it is 0. *)

\* The filed cell of a row the company has no entry for (NaN).
MissingFiled == 0

\* (company_df - industry_df["avg"]) / industry_df["std"], on one cell.
ZScore(value, avg, std) ==
    LET d == Sub(value, avg)
    IN  Div(Mul(d, <<Abs(d[1]), d[2]>>), std)

RECURSIVE SortPeriods(_)
SortPeriods(S) ==
    IF S = {} THEN <<>>
    ELSE LET m == CHOOSE p \in S : \A q \in S : PeriodRank(p) <= PeriodRank(q)
         IN  <<m>> \o SortPeriods(S \ {m})

\* The frame after the arithmetic and company_df["filed"] = filed: a row
\* per period of either table; the cells and the filed date of a period the
\* company has no row for are missing.
AlignedRows(company, rows) ==
    LET own == {PeriodOf(company.rows[k]) : k \in DOMAIN company.rows}
        periods == SortPeriods(own \cup IndustryPeriods(rows))
    IN  [i \in DOMAIN periods |->
            LET p == periods[i]
            IN  IF p \in own
                THEN LET r == company.rows[CHOOSE k \in DOMAIN company.rows :
                                               PeriodOf(company.rows[k]) = p]
                     IN  WideRow(p[1], p[2], r.filed,
                             [c \in ColumnSet |->
                                 ZScore(r.vals[c], IndustryAvg(rows, p, c),
                                        IndustryStd(rows, p, c))])
                ELSE WideRow(p[1], p[2], MissingFiled,
                             [c \in ColumnSet |-> NaN])]

\* A fill that leaves the percent-change columns as they are.
KeepMissing(c, x) == x

\* company_df[pct_change_columns].fillna(value=0.0), on the cell x of
\* column c.
FillZero(c, x) ==
    IF c \in Range(pct_change_target_columns) /\ IsNaN(x) THEN Num(0) ELSE x

\* company_df.fillna(method="ffill"), on the cell of column c in row i.
RECURSIVE LastValue(_, _, _)
LastValue(rows, i, c) ==
    LET x == FillZero(c, rows[i].vals[c])
    IN  IF ~IsNaN(x) \/ i = 1 THEN x ELSE LastValue(rows, i - 1, c)

RECURSIVE LastFiled(_, _)
LastFiled(rows, i) ==
    IF rows[i].filed # MissingFiled \/ i = 1 THEN rows[i].filed
    ELSE LastFiled(rows, i - 1)

FilledRows(rows) ==
    [i \in DOMAIN rows |->
        WideRow(rows[i].fy, rows[i].fp, LastFiled(rows, i),
                [c \in ColumnSet |-> LastValue(rows, i, c)])]

\* .dropna()
\* A dropna that drops only the rows without a filing date.
DropUnfiled(rows) == SelectSeq(rows, LAMBDA r : r.filed # MissingFiled)

DropMissing(rows) ==
    SelectSeq(rows,
        LAMBDA r : r.filed # MissingFiled /\ \A c \in ColumnSet : ~IsNaN(r.vals[c]))

\* A de-duplication that keeps the last row of every filed date.
DropDuplicatesKeepLast(rows) ==
    LET kept == {i \in DOMAIN rows :
                    \A j \in (i + 1)..Len(rows) : rows[j].filed # rows[i].filed}
    IN  [k \in 1..Cardinality(kept) |->
            rows[CHOOSE i \in kept :
                    Cardinality({j \in kept : j < i}) = k - 1]]

\* A de-duplication that keeps every row.
KeepDuplicates(rows) == rows

\* .drop_duplicates("filed"): the first row of every filed date.
DropDuplicates(rows) ==
    LET kept == {i \in DOMAIN rows :
                    \A j \in 1..(i - 1) : rows[j].filed # rows[i].filed}
    IN  [k \in 1..Cardinality(kept) |->
            rows[CHOOSE i \in kept :
                    Cardinality({j \in kept : j < i}) = k - 1]]

\* .set_index(["fy", "fp", "filed"]).sort_index()
SortByIndex(rows) ==
    LET keys == SortKeys({KeyOf(rows[i]) : i \in DOMAIN rows})
    IN  [k \in DOMAIN keys |->
            rows[CHOOSE i \in DOMAIN rows : KeyOf(rows[i]) = keys[k]]]

Relative(ticker, level, err, table) ==
    [done |-> TRUE, ticker |-> ticker, level |-> level, err |-> err,
     table |-> table]

from_other_refined(table, ticker, level, start, end) ==
    LET company == from_refined(table, ticker, start, end)
        rows == SelectIndustry(table, IndustryCode(ticker, level), start, end)
    IN  IF company.err # "" THEN Relative(ticker, level, company.err, NoTable)
        ELSE IF rows = {}
             THEN Relative(ticker, level, "NoResultFound", NoTable)
             ELSE Relative(ticker, level, "",
                      WideTable(columns,
                          SortByIndex(DropDuplicates(DropMissing(FilledRows(
                              AlignedRows(company.table, rows)))))))

-----------------------------------------------------------------------------
(* The behaviours of the normalization: companies write their complete     *)
(* feature tables to the store, and a company's features are normalized    *)
(* by its industry.                                                        *)

\* What sets a company's features apart from its industry's.
TickerOffset(ticker) ==
    CASE ticker = "GM" -> 2
      [] ticker = "HOG" -> 0
      [] ticker = "F" -> -2
      [] ticker = "KR" -> 7

\* The feature c of a company in the period number n: the percent changes
\* of the first period are 0, the QuickRatio of the second period is the
\* same for every company, and every other feature differs by company.
FeatureValue(ticker, n, c) ==
    IF c \in Range(pct_change_target_columns) /\ n = 1 THEN Num(0)
    ELSE IF c = "QuickRatio" /\ n = 2 THEN Num(3)
    ELSE Num(NameIndex(c) + 5 + n * TickerOffset(ticker) - (n - 1))

\* The periods a company has reported, by period number, with their filed
\* dates.
First == << [n |-> 1, filed |-> 1] >>
Second == << [n |-> 2, filed |-> 2] >>
FirstTwo == << [n |-> 1, filed |-> 1], [n |-> 2, filed |-> 2] >>
FirstTwoLate == << [n |-> 1, filed |-> 2], [n |-> 2, filed |-> 3] >>
BothOnSecond == << [n |-> 1, filed |-> 2], [n |-> 2, filed |-> 2] >>
AllThree ==
    << [n |-> 1, filed |-> 1], [n |-> 2, filed |-> 2], [n |-> 3, filed |-> 3] >>
TwoOnSecondThenThird ==
    << [n |-> 1, filed |-> 2], [n |-> 2, filed |-> 2], [n |-> 3, filed |-> 3] >>

\* The company whose features are normalized reports in every way, the
\* others of its industry in some, the company of another industry in one.
FilingsOf(ticker) ==
    CASE ticker = "GM" ->
            {First, Second, FirstTwo, FirstTwoLate, BothOnSecond, AllThree,
             TwoOnSecondThenThird}
      [] ticker = "HOG" -> {First, FirstTwo, FirstTwoLate}
      [] ticker = "F" -> {First, Second, FirstTwo}
      [] ticker = "KR" -> {FirstTwo}

FeatureTable(ticker, filings) ==
    WideTable(columns,
        [i \in DOMAIN filings |->
            WideRow(PeriodSeq[filings[i].n][1], PeriodSeq[filings[i].n][2],
                    filings[i].filed,
                    [c \in ColumnSet |-> FeatureValue(ticker, filings[i].n, c)])])

RelativeTickers == {"GM", "HOG"}

Levels == {2, 3, 4}

NotRelative ==
    [done |-> FALSE, ticker |-> "", level |-> 0, err |-> "", table |-> NoTable]

InitRelative ==
    /\ quarterly = {}
    /\ normalized_quarterly = {}
    /\ quarterly_features = {}
    /\ ret = NoCall
    /\ log = <<>>
    /\ prev = {}
    /\ cache = {}
    /\ pool = NoPool
    /\ obs = <<>>
    /\ out = NotRelative

\* Quarterly.to_refined of a company that has no rows in the store yet.
WriteFeatures(ticker, filings) ==
    LET df == FeatureTable(ticker, filings)
    IN  /\ \A r \in quarterly : r.cik # get_cik(ticker)
        /\ Cardinality({r.cik : r \in quarterly}) < MaxMembers
        /\ quarterly' = ToRefinedTable(quarterly, ticker, df)
        /\ ret' = Returned("to_refined", ticker, NoTable, NoTable,
                           ToRefinedCount(ticker, df))
        /\ out' = NotRelative
        /\ UNCHANGED <<normalized_quarterly, log, prev, obs,
                       quarterly_features, cache, pool>>

FromOtherRefined(ticker, level) ==
    /\ ~out.done
    /\ out' = from_other_refined(quarterly, ticker, level,
                                 DefaultStart, DefaultEnd)
    /\ UNCHANGED <<normalized_quarterly, quarterly, ret, log, prev, obs,
                   quarterly_features, cache, pool>>

NextRelative ==
    \/ \E ticker \in Tickers : \E filings \in FilingsOf(ticker) :
          WriteFeatures(ticker, filings)
    \/ \E ticker \in RelativeTickers, level \in Levels :
          FromOtherRefined(ticker, level)

SpecRelative == InitRelative /\ [][NextRelative]_vars

\* What the store says of the company being normalized and of its industry,
\* read off the rows directly.
RelativeReturned == out.done /\ out.err = ""

Entity == {r \in quarterly : r.cik = get_cik(out.ticker)}

EntityPeriods == {PeriodOf(r) : r \in Entity}

EntityValue(p, c) ==
    (CHOOSE r \in Entity : PeriodOf(r) = p /\ r.name = c).value

EntityFiled(p) == (CHOOSE r \in Entity : PeriodOf(r) = p).filed

\* The companies whose SIC code agrees with the company's on the first
\* out.level digits.
Members ==
    LET own == CHOOSE s \in submissions : s.ticker = out.ticker
    IN  {s.cik : s \in {m \in submissions :
                            \A i \in 1..out.level : m.sic[i] = own.sic[i]}}

MemberRows(p, c) ==
    {r \in quarterly : r.cik \in Members /\ PeriodOf(r) = p /\ r.name = c}

MemberPeriods == {PeriodOf(r) : r \in {m \in quarterly : m.cik \in Members}}

\* (entity value - industry mean) / industry stddev of a period and a
\* feature, as z * |z|.
Quotient(p, c) ==
    ZScore(EntityValue(p, c), Avg(MemberRows(p, c)), Variance(MemberRows(p, c)))

OutRows(p) == {k \in DOMAIN out.table.rows : PeriodOf(out.table.rows[k]) = p}

\* The periods of the company at or before p in which the quotient is not
\* missing.
QuotientUpTo(p, c) ==
    {q \in EntityPeriods :
        PeriodRank(q) <= PeriodRank(p) /\ ~IsNaN(Quotient(q, c))}

LastQuotient(p, c) ==
    Quotient(CHOOSE q \in QuotientUpTo(p, c) :
                 \A r \in QuotientUpTo(p, c) : PeriodRank(r) <= PeriodRank(q),
             c)

OtherColumnSet == ColumnSet \ Range(pct_change_target_columns)

\* C8: for every feature and every period of the output, a period present
\* for both the company and its industry, the value is (entity value -
\* industry mean) / industry stddev with the statistics of the same (fy, fp)
\* and feature, wherever that quotient is not missing.
C8_ZScore ==
    RelativeReturned =>
        \A k \in DOMAIN out.table.rows, c \in ColumnSet :
            LET p == PeriodOf(out.table.rows[k])
            IN  /\ p \in EntityPeriods \cap MemberPeriods
                /\ ~IsNaN(Quotient(p, c))
                      => out.table.rows[k].vals[c] = Quotient(p, c)

\* Value 10 with mean 8 and stddev 2 (variance 4) has given exactly 1.
C8_Witness ==
    /\ RelativeReturned
    /\ \E k \in DOMAIN out.table.rows, c \in ColumnSet :
          LET p == PeriodOf(out.table.rows[k])
          IN  /\ EntityValue(p, c) = Num(10)
              /\ Avg(MemberRows(p, c)) = Num(8)
              /\ Variance(MemberRows(p, c)) = Num(4)
              /\ out.table.rows[k].vals[c] = Num(1)

\* C9: every row of the output is indexed by a (fy, fp) at which the company
\* has its own feature row and carries the company's own filed date of that
\* period; a period only other members reported has no row.
C9_OwnPeriodsOwnFiled ==
    RelativeReturned =>
        /\ \A k \in DOMAIN out.table.rows :
              /\ PeriodOf(out.table.rows[k]) \in EntityPeriods
              /\ out.table.rows[k].filed =
                    EntityFiled(PeriodOf(out.table.rows[k]))
        /\ \A p \in MemberPeriods \ EntityPeriods : OutRows(p) = {}

\* Other members reported a period the company did not, after a period of
\* the company, and the industry's filed date of a period of the output,
\* the latest of its members, is later than the company's.
C9_Witness ==
    /\ RelativeReturned
    /\ \E p \in MemberPeriods \ EntityPeriods, q \in EntityPeriods :
          PeriodRank(q) < PeriodRank(p) /\ OutRows(q) # {}
    /\ \E k \in DOMAIN out.table.rows :
          GroupFiled({r \in quarterly :
                         /\ r.cik \in Members
                         /\ PeriodOf(r) = PeriodOf(out.table.rows[k])})
              > out.table.rows[k].filed

\* The cells of the rows of the output where the quotient is missing: 0 in
\* a percent-change column, the most recent earlier quotient elsewhere.
MissingQuotientsFilled ==
    \A p \in EntityPeriods : \A k \in OutRows(p) :
        /\ \A c \in Range(pct_change_target_columns) :
              IsNaN(Quotient(p, c)) => out.table.rows[k].vals[c] = Num(0)
        /\ \A c \in OtherColumnSet :
              IsNaN(Quotient(p, c)) =>
                  /\ QuotientUpTo(p, c) # {}
                  /\ out.table.rows[k].vals[c] = LastQuotient(p, c)

\* An earlier row of the output carries the filed date of the period p.
FiledEarlier(p) ==
    \E q \in EntityPeriods :
        /\ PeriodRank(q) < PeriodRank(p)
        /\ OutRows(q) # {}
        /\ EntityFiled(q) = EntityFiled(p)

\* C10 as claimed: a percent-change feature whose z-score is missing is 0,
\* every other feature whose z-score is missing takes the most recent
\* earlier value that is not missing, and a row with a missing z-score is
\* dropped only if some feature other than a percent change has no such
\* earlier value.
C10_DroppedOnlyWithoutEarlierValue ==
    RelativeReturned =>
        /\ MissingQuotientsFilled
        /\ \A p \in EntityPeriods :
              ((\E c \in ColumnSet : IsNaN(Quotient(p, c))) /\ OutRows(p) = {})
                 => \E c \in OtherColumnSet : QuotientUpTo(p, c) = {}

\* C10 as amended: a percent-change feature whose z-score is missing is 0,
\* every other feature whose z-score is missing takes the most recent
\* earlier value that is not missing, and a row of the company is dropped
\* exactly when some feature other than a percent change has no such value
\* or an earlier row of the output carries the same filed date.
C10_MissingZScores ==
    RelativeReturned =>
        /\ MissingQuotientsFilled
        /\ \A p \in EntityPeriods :
              OutRows(p) = {}
                 <=> \/ \E c \in OtherColumnSet : QuotientUpTo(p, c) = {}
                     \/ FiledEarlier(p)

\* A row of the output holds a percent change set to 0 where the quotient
\* is missing and another feature taken from an earlier period.
C10_Witness ==
    /\ RelativeReturned
    /\ \E p \in EntityPeriods : \E k \in OutRows(p) :
          /\ \E c \in Range(pct_change_target_columns) :
                /\ IsNaN(Quotient(p, c))
                /\ out.table.rows[k].vals[c] = Num(0)
                /\ \E q \in QuotientUpTo(p, c) : Quotient(q, c) # Num(0)
          /\ \E c \in OtherColumnSet :
                /\ IsNaN(Quotient(p, c))
                /\ out.table.rows[k].vals[c] = LastQuotient(p, c)

\* The company has a row for the period p once the missing cells are filled:
\* every feature other than a percent change has a quotient at or before p.
HasFilledRow(p) == \A c \in OtherColumnSet : QuotientUpTo(p, c) # {}

\* The industry's standard deviation of a period and a feature is zero or
\* undefined.
NoDeviation(p, c) ==
    \/ IsNaN(Variance(MemberRows(p, c)))
    \/ Variance(MemberRows(p, c)) = Num(0)

-----------------------------------------------------------------------------
(* The normalized store: NormalizedQuarterly.to_refined, from_refined and  *)
(* install.                                                                 *)

\* The level from_other_refined takes when none is given.
DefaultLevel == 2

\* NormalizedQuarterly.to_refined: the schema check, melt and insert of
\* Quarterly.to_refined, made on sql.normalized_quarterly.
normalized_to_refined_error(table, ticker, df) ==
    IF SchemaCheckFails(df) THEN "ValueError"
    ELSE IF InsertViolatesKey(table, Melt(get_cik(ticker), df))
         THEN "IntegrityError"
         ELSE ""

normalized_to_refined(table, ticker, df) ==
    IF normalized_to_refined_error(table, ticker, df) = ""
    THEN InsertCommit(table, Melt(get_cik(ticker), df))
    ELSE table

\* A read that returns the pivot of whatever the select finds, an empty
\* table when it finds nothing.
normalized_from_refined_or_empty(table, ticker, start, end) ==
    LET rows == {r \in table :
                    /\ \E s \in submissions : s.cik = r.cik /\ s.ticker = ticker
                    /\ r.filed >= start
                    /\ r.filed <= end}
    IN  Returned("normalized.from_refined", ticker, NoTable, PivotRefined(rows),
                 Cardinality({KeyOf(r) : r \in rows}))

\* NormalizedQuarterly.from_refined: the rows of sql.normalized_quarterly
\* joined to the submissions row of the ticker, filed within [start, end],
\* pivoted, sorted by index, the columns in the order of Quarterly.columns.
normalized_from_refined(table, ticker, start, end) ==
    LET rows == {r \in table :
                    /\ \E s \in submissions : s.cik = r.cik /\ s.ticker = ticker
                    /\ r.filed >= start
                    /\ r.filed <= end}
    IN  IF rows = {}
        THEN Raised("normalized.from_refined", ticker, NoTable, "NoResultFound")
        ELSE IF ~(ColumnSet \subseteq {r.name : r \in rows})
             THEN Raised("normalized.from_refined", ticker, NoTable, "KeyError")
             ELSE Returned("normalized.from_refined", ticker, NoTable,
                           PivotRefined(rows),
                           Cardinality({KeyOf(r) : r \in rows}))

\* What install has done so far: the table, total_rows, and for every
\* ticker of the loop how its turn ended (the error that was caught, the
\* rowcount of its dataframe, and what to_refined returned).
Installed(table, total_rows, outcomes) ==
    [table |-> table, total_rows |-> total_rows, outcomes |-> outcomes]

Outcome(ticker, err, rowcount, written) ==
    [ticker |-> ticker, err |-> err, rowcount |-> rowcount, written |-> written]

\* The loop of NormalizedQuarterly.install over the tickers in the order
\* they are iterated: from_other_refined at the defaults, to_refined when
\* the dataframe has rows, any exception caught and the ticker skipped.
RECURSIVE normalized_install_loop(_, _, _)
normalized_install_loop(features, tickers, acc) ==
    IF tickers = <<>> THEN acc
    ELSE LET ticker == Head(tickers)
             df == from_other_refined(features, ticker, DefaultLevel,
                                      DefaultStart, DefaultEnd)
             rowcount == Len(df.table.rows)
             err == IF df.err # "" THEN df.err
                    ELSE IF rowcount = 0 THEN ""
                    ELSE normalized_to_refined_error(acc.table, ticker, df.table)
             wrote == err = "" /\ rowcount > 0
         IN  normalized_install_loop(features, Tail(tickers),
                 Installed(
                     IF wrote THEN normalized_to_refined(acc.table, ticker, df.table)
                     ELSE acc.table,
                     IF wrote THEN acc.total_rows + rowcount ELSE acc.total_rows,
                     Append(acc.outcomes,
                         Outcome(ticker, err, rowcount,
                                 IF wrote THEN ToRefinedCount(ticker, df.table)
                                 ELSE 0))))

\* NormalizedQuarterly.install on the tickers given: the table is dropped
\* and created when recreate_tables is set, then the loop runs.
normalized_install(features, table, tickers, recreate_tables) ==
    normalized_install_loop(features, tickers,
        Installed(IF recreate_tables THEN {} ELSE table, 0, <<>>))

-----------------------------------------------------------------------------
(* get_ticker_set.                                                          *)

\* sa.func.count(name == col) over the rows of one cik: count(expr) counts
\* the rows whose expr is not NULL, and the comparison is NULL only where
\* the name is.
CountNameEquals(rows, col) == Cardinality({r \in rows : r.name # Null})

\* Quarterly.get_ticker_set and NormalizedQuarterly.get_ticker_set, each on
\* its table: the tickers of submissions joined on cik, group_by(cik),
\* having(count(name == col) >= lb for every col).
get_ticker_set(table, lb) ==
    {s.ticker : s \in
        {t \in submissions :
            /\ \E r \in table : r.cik = t.cik
            /\ \A i \in DOMAIN columns :
                  CountNameEquals({r \in table : r.cik = t.cik}, columns[i]) >= lb}}

\* NormalizedQuarterly.get_candidate_ticker_set: an alias.
get_candidate_ticker_set(features, lb) == get_ticker_set(features, lb)

\* The orders a set of tickers can be iterated in.
Orders(S) ==
    {o \in [1..Cardinality(S) -> S] : \A i, j \in DOMAIN o : i # j => o[i] # o[j]}

-----------------------------------------------------------------------------
(* IndustryQuarterly.from_refined as a call: the industry is chosen by a   *)
(* ticker or by a code; "" and <<>> stand for an argument not given.       *)

NoTicker == ""
NoCode == <<>>

\* str(code)[:level]
CodePrefix(code, level) ==
    SubSeq(code, 1, IF level < Len(code) THEN level ELSE Len(code))

\* A row of the industry table: its index entry and, for every name, the
\* cells of "avg" and "std".
IndustryRow(key, avg, std) ==
    [fy |-> key.fy, fp |-> key.fp, filed |-> key.filed, avg |-> avg, std |-> std]

\* The rows the select returns: one per (fy, fp, name) group, with the
\* group's max(filed), avg(value) and std(value).
IndustrySelect(rows) ==
    {[fy |-> r.fy, fp |-> r.fp, name |-> r.name,
      filed |-> GroupFiled(IndustryGroup(rows, PeriodOf(r), r.name)),
      avg |-> Avg(IndustryGroup(rows, PeriodOf(r), r.name)),
      std |-> Variance(IndustryGroup(rows, PeriodOf(r), r.name))] : r \in rows}

\* df.pivot(index=["fy", "fp", "filed"], columns="name",
\* values=["avg", "std"]).sort_index(): a row per index entry, a column per
\* name of the select, NaN where an entry has no row of the name.
IndustryPivot(df) ==
    LET keys == SortKeys({KeyOf(g) : g \in df})
        names == {g.name : g \in df}
        cell(key, name, field) ==
            IF \E g \in df : KeyOf(g) = key /\ g.name = name
            THEN (CHOOSE g \in df : KeyOf(g) = key /\ g.name = name)[field]
            ELSE NaN
    IN  [i \in 1..Len(keys) |->
            IndustryRow(keys[i],
                        [c \in names |-> cell(keys[i], c, "avg")],
                        [c \in names |-> cell(keys[i], c, "std")])]

IndustryReturned(code, rows) == [err |-> "", code |-> code, rows |-> rows]

IndustryRaised(code, err) == [err |-> err, code |-> code, rows |-> <<>>]

industry_from_refined(table, ticker, code, level, start, end) ==
    IF ticker = NoTicker /\ code = NoCode
    THEN IndustryRaised(NoCode, "ValueError")
    ELSE LET prefix == IF ticker # NoTicker THEN IndustryCode(ticker, level)
                       ELSE CodePrefix(code, level)
             rows == SelectIndustry(table, prefix, start, end)
         IN  IF rows = {} THEN IndustryRaised(prefix, "NoResultFound")
             ELSE IndustryReturned(prefix, IndustryPivot(IndustrySelect(rows)))

-----------------------------------------------------------------------------
(* The behaviours of the industry statistics: companies write their        *)
(* feature tables and the statistics of an industry are read, chosen by a  *)
(* ticker or by a code.  A read leaves the store as it is; its answer is  *)
(* held until the next write.                                              *)

\* The answer of a read: the call, its arguments and what it returned.
Answer(call, args, result) ==
    [done |-> TRUE, call |-> call, args |-> args, result |-> result]

\* The reports a company writes here.
IndustryFilings(ticker) ==
    CASE ticker = "GM" -> {First, FirstTwoLate, AllThree}
      [] ticker = "HOG" -> {First, FirstTwo}
      [] ticker = "F" -> {First, Second}
      [] ticker = "KR" -> {FirstTwo}

IndustryCall(ticker, code, level, start, end) ==
    [ticker |-> ticker, code |-> code, level |-> level,
     start |-> start, end |-> end]

\* The calls of IndustryQuarterly.from_refined: by ticker and by code at
\* every level, codes longer and shorter than the level, a part of the
\* dates, neither argument and both.
IndustryCalls ==
    { IndustryCall("GM", NoCode, 2, DefaultStart, DefaultEnd),
      IndustryCall("GM", NoCode, 3, DefaultStart, DefaultEnd),
      IndustryCall("GM", NoCode, 4, DefaultStart, DefaultEnd),
      IndustryCall("KR", NoCode, 2, DefaultStart, DefaultEnd),
      IndustryCall(NoTicker, <<3, 7>>, 2, DefaultStart, DefaultEnd),
      IndustryCall(NoTicker, <<3, 7, 1>>, 3, DefaultStart, DefaultEnd),
      IndustryCall(NoTicker, <<3, 7, 1, 1>>, 4, DefaultStart, DefaultEnd),
      IndustryCall(NoTicker, <<3, 7, 1, 2>>, 2, DefaultStart, DefaultEnd),
      IndustryCall(NoTicker, <<3>>, 2, DefaultStart, DefaultEnd),
      IndustryCall(NoTicker, <<5, 4>>, 2, DefaultStart, DefaultEnd),
      IndustryCall("GM", NoCode, 2, 2, DefaultEnd),
      IndustryCall(NoTicker, <<3, 7>>, 2, 1, 1),
      IndustryCall(NoTicker, NoCode, 2, DefaultStart, DefaultEnd),
      IndustryCall("GM", <<5, 4>>, 2, DefaultStart, DefaultEnd),
      IndustryCall("KR", <<3, 7>>, 2, DefaultStart, DefaultEnd) }

InitIndustry ==
    /\ quarterly = {}
    /\ normalized_quarterly = {}
    /\ quarterly_features = {}
    /\ ret = NoCall
    /\ log = <<>>
    /\ prev = {}
    /\ cache = {}
    /\ pool = NoPool
    /\ obs = <<>>
    /\ out = NotRelative

\* IndustryQuarterly.from_refined(ticker=, code=, level=, start=, end=)
IndustryFromRefined(call) ==
    /\ ~out.done
    /\ out' = Answer("industry.from_refined", call,
                     industry_from_refined(quarterly, call.ticker, call.code,
                                           call.level, call.start, call.end))
    /\ UNCHANGED <<normalized_quarterly, quarterly, ret, log, prev, obs,
                   quarterly_features, cache, pool>>

NextIndustry ==
    \/ \E ticker \in Tickers : \E filings \in IndustryFilings(ticker) :
          WriteFeatures(ticker, filings)
    \/ \E call \in IndustryCalls : IndustryFromRefined(call)

SpecIndustry == InitIndustry /\ [][NextIndustry]_vars

-----------------------------------------------------------------------------
(* Properties of the industry statistics.                                  *)

IndustryAnswered == out.done /\ out.call = "industry.from_refined"

OneGiven(call) == (call.ticker = NoTicker) # (call.code = NoCode)

SicOf(cik) == (CHOOSE s \in submissions : s.cik = cik).sic

FirstChars(x, n) == [i \in 1..(IF n < Len(x) THEN n ELSE Len(x)) |-> x[i]]

\* The prefix the call asks for: of the code given, or of the SIC code of
\* the ticker given.
AskedPrefix(call) ==
    IF call.ticker # NoTicker
    THEN FirstChars((CHOOSE s \in submissions : s.ticker = call.ticker).sic,
                    call.level)
    ELSE FirstChars(call.code, call.level)

HasPrefix(sic, prefix) ==
    /\ Len(prefix) <= Len(sic)
    /\ \A i \in DOMAIN prefix : sic[i] = prefix[i]

\* The feature rows of the companies of a prefix, filed within the dates
\* of the call.
RowsOfPrefix(prefix, call) ==
    {r \in quarterly :
        /\ HasPrefix(SicOf(r.cik), prefix)
        /\ call.start <= r.filed
        /\ r.filed <= call.end}

GroupOfRow(rows, p, name) == {r \in rows : <<r.fy, r.fp>> = p /\ r.name = name}

RECURSIVE Total(_)
Total(S) ==
    IF S = {} THEN Num(0)
    ELSE LET r == CHOOSE r \in S : TRUE IN Add(r.value, Total(S \ {r}))

RECURSIVE TotalOfSquares(_)
TotalOfSquares(S) ==
    IF S = {} THEN Num(0)
    ELSE LET r == CHOOSE r \in S : TRUE
         IN  Add(Mul(r.value, r.value), TotalOfSquares(S \ {r}))

Mean(S) == Div(Total(S), Num(Cardinality(S)))

\* The square of the sample standard deviation:
\* (sum of squares - n * mean^2) / (n - 1), missing for a single value.
SampleVariance(S) ==
    IF Cardinality(S) = 1 THEN NaN
    ELSE Div(Sub(TotalOfSquares(S),
                 Mul(Num(Cardinality(S)), Mul(Mean(S), Mean(S)))),
             Num(Cardinality(S) - 1))

LatestFiled(S) == CHOOSE d \in {r.filed : r \in S} : \A r \in S : r.filed <= d

\* C13: the feature rows that contribute to IndustryQuarterly.from_refined
\* are exactly those of the companies whose SIC code starts with the
\* prefix, the first `level` characters of the code given or of the SIC
\* code of the ticker given: the call raises NoResultFound exactly when
\* there is no such row within the dates, every such row is averaged into
\* the cell of its period and name, every cell with a value is the mean of
\* such rows, and the call by a ticker returns the table of the call by the
\* code equal to the ticker's prefix.
C13_RowsOfPrefixContribute ==
    (IndustryAnswered /\ OneGiven(out.args)) =>
        LET call == out.args
            rows == RowsOfPrefix(AskedPrefix(call), call)
            table == out.result.rows
        IN  /\ out.result.code = AskedPrefix(call)
            /\ out.result.err = IF rows = {} THEN "NoResultFound" ELSE ""
            /\ \A r \in rows :
                  \E i \in DOMAIN table :
                     /\ <<table[i].fy, table[i].fp>> = <<r.fy, r.fp>>
                     /\ r.name \in DOMAIN table[i].avg
                     /\ table[i].avg[r.name] =
                           Mean(GroupOfRow(rows, <<r.fy, r.fp>>, r.name))
            /\ \A i \in DOMAIN table : \A name \in DOMAIN table[i].avg :
                  ~IsNaN(table[i].avg[name]) =>
                     GroupOfRow(rows, <<table[i].fy, table[i].fp>>, name) # {}
            /\ call.ticker # NoTicker =>
                  out.result =
                     industry_from_refined(quarterly, NoTicker,
                         AskedPrefix(call), call.level, call.start, call.end)

\* The store holds rows of a company of SIC 3711, of one of SIC 3712 and of
\* one of SIC 5411, and the statistics of the industry of the first at
\* level 2 have been returned.
C13_Witness ==
    /\ IndustryAnswered
    /\ out.args.ticker = "GM" /\ out.args.code = NoCode /\ out.args.level = 2
    /\ out.result.err = ""
    /\ \A sic \in { <<3, 7, 1, 1>>, <<3, 7, 1, 2>>, <<5, 4, 1, 1>> } :
          \E r \in quarterly :
             /\ SicOf(r.cik) = sic
             /\ out.args.start <= r.filed /\ r.filed <= out.args.end
    /\ \E r \in quarterly : r \notin RowsOfPrefix(<<3, 7>>, out.args)

\* C14: for each (fy, fp, name) group of the contributing rows within the
\* dates, IndustryQuarterly.from_refined reports the arithmetic mean of the
\* values, their sample standard deviation and the latest filed date of the
\* group; the table is the one computed from the rows directly, a row per
\* (fy, fp, latest filed date) in index order and a column per name.
C14_MeanStdMaxFiled ==
    (IndustryAnswered /\ out.result.err = "") =>
        LET rows == RowsOfPrefix(out.result.code, out.args)
            names == {r.name : r \in rows}
            table == out.result.rows
            key(r) == [fy |-> r.fy, fp |-> r.fp,
                       filed |-> LatestFiled(GroupOfRow(rows, <<r.fy, r.fp>>,
                                                        r.name))]
            at(i, name) == {r \in GroupOfRow(rows, <<table[i].fy, table[i].fp>>,
                                             name) : key(r) = KeyOf(table[i])}
        IN  /\ {KeyOf(table[i]) : i \in DOMAIN table} = {key(r) : r \in rows}
            /\ \A i, j \in DOMAIN table :
                  i < j => KeyLess(KeyOf(table[i]), KeyOf(table[j]))
            /\ \A i \in DOMAIN table :
                  /\ DOMAIN table[i].avg = names
                  /\ DOMAIN table[i].std = names
                  /\ \A name \in names :
                        LET group == GroupOfRow(rows,
                                         <<table[i].fy, table[i].fp>>, name)
                        IN  IF at(i, name) = {}
                            THEN /\ IsNaN(table[i].avg[name])
                                 /\ IsNaN(table[i].std[name])
                            ELSE /\ table[i].avg[name] = Mean(group)
                                 /\ table[i].std[name] = SampleVariance(group)

\* The statistics returned have a group of two companies or more whose
\* values differ and whose filed dates differ.
C14_Witness ==
    /\ IndustryAnswered
    /\ out.result.err = ""
    /\ \E r, t \in RowsOfPrefix(out.result.code, out.args) :
          /\ <<r.fy, r.fp, r.name>> = <<t.fy, t.fp, t.name>>
          /\ r.value # t.value
          /\ r.filed < t.filed
          /\ \E i \in DOMAIN out.result.rows :
                /\ KeyOf(out.result.rows[i]) =
                      [fy |-> t.fy, fp |-> t.fp, filed |-> t.filed]
                /\ ~IsNaN(out.result.rows[i].std[r.name])
                /\ out.result.rows[i].std[r.name] # Num(0)

\* C15: IndustryQuarterly.from_refined requires exactly one of ticker and
\* code: called with neither or with both it raises ValueError and
\* aggregates nothing.
C15_ExactlyOneOfTickerAndCode ==
    (IndustryAnswered /\ ~OneGiven(out.args)) =>
        /\ out.result.err = "ValueError"
        /\ out.result.rows = <<>>

-----------------------------------------------------------------------------
(* The behaviours of the stores: companies write their feature tables,     *)
(* the normalized features are installed, and the tables are read.  A      *)
(* read leaves the stores as they are; its answer is held until the next   *)
(* write.                                                                  *)

\* The reports a company writes here.
InstallFilings(ticker) ==
    CASE ticker = "GM" -> {First}
      [] ticker = "HOG" -> {First}
      [] ticker = "F" -> {First}
      [] ticker = "KR" -> {}

\* The calls of install: the tickers, none standing for the candidates,
\* and recreate_tables.
InstallCalls ==
    { [tickers |-> <<>>, recreate_tables |-> FALSE],
      [tickers |-> <<"GM">>, recreate_tables |-> TRUE] }

ReadCall(ticker, start, end) == [ticker |-> ticker, start |-> start, end |-> end]

\* The reads of a company's rows: of two companies, at all dates and at the
\* dates after the first.
InstallReads ==
    { ReadCall("GM", DefaultStart, DefaultEnd),
      ReadCall("GM", 2, DefaultEnd),
      ReadCall("HOG", DefaultStart, DefaultEnd) }

\* The reads of the industry statistics.
InstallIndustryReads ==
    { IndustryCall("GM", NoCode, 2, DefaultStart, DefaultEnd),
      IndustryCall("GM", NoCode, 2, 2, DefaultEnd),
      IndustryCall(NoTicker, <<5, 4>>, 2, DefaultStart, DefaultEnd) }

\* One call of install as the log keeps it.
InstallLog(op, tickers, outcomes) ==
    [op |-> op, tickers |-> tickers, outcomes |-> outcomes]

InitInstall ==
    /\ quarterly = {}
    /\ normalized_quarterly = {}
    /\ quarterly_features = {}
    /\ ret = NoCall
    /\ log = <<>>
    /\ prev = {}
    /\ cache = {}
    /\ pool = NoPool
    /\ obs = <<>>
    /\ out = NotRelative

\* NormalizedQuarterly.install: tickers or the candidate set, in the order
\* the set is iterated.
NormalizedInstall(tickers, recreate_tables) ==
    /\ Len(log) < MaxInstalls
    /\ ~out.done
    /\ \E order \in (IF tickers = <<>>
                     THEN Orders(get_candidate_ticker_set(quarterly, 1))
                     ELSE {tickers}) :
          LET done == normalized_install(quarterly, normalized_quarterly,
                                         order, recreate_tables)
          IN  /\ normalized_quarterly' = done.table
              /\ UNCHANGED cache
              /\ prev' = IF recreate_tables THEN {} ELSE normalized_quarterly
              /\ log' = Append(log, InstallLog("normalized.install", order,
                                               done.outcomes))
              /\ ret' = Returned("normalized.install", "", NoTable, NoTable,
                                 done.total_rows)
    /\ UNCHANGED <<quarterly, obs, out, quarterly_features, pool>>

\* NormalizedQuarterly.from_refined(ticker, start=, end=)
NormalizedFromRefined(call) ==
    /\ ~out.done
    /\ out' = Answer("normalized.from_refined", call,
                     normalized_from_refined(normalized_quarterly, call.ticker,
                                             call.start, call.end))
    /\ UNCHANGED <<normalized_quarterly, quarterly, ret, log, prev, obs,
                   quarterly_features, cache, pool>>

\* Quarterly.from_refined(ticker, start=, end=)
QuarterlyFromRefined(call) ==
    /\ ~out.done
    /\ out' = Answer("from_refined", call,
                     from_refined(quarterly, call.ticker, call.start, call.end))
    /\ UNCHANGED <<normalized_quarterly, quarterly, ret, log, prev, obs,
                   quarterly_features, cache, pool>>

\* The values of lb get_ticker_set is called with.
LowerBounds == {1, 2}

\* Quarterly.get_ticker_set(lb)
QuarterlyGetTickerSet(lb) ==
    /\ ~out.done
    /\ out' = Answer("get_ticker_set", lb, get_ticker_set(quarterly, lb))
    /\ UNCHANGED <<normalized_quarterly, quarterly, ret, log, prev, obs,
                   quarterly_features, cache, pool>>

\* NormalizedQuarterly.get_ticker_set(lb)
NormalizedGetTickerSet(lb) ==
    /\ ~out.done
    /\ out' = Answer("normalized.get_ticker_set", lb,
                     get_ticker_set(normalized_quarterly, lb))
    /\ UNCHANGED <<normalized_quarterly, quarterly, ret, log, prev, obs,
                   quarterly_features, cache, pool>>

NextInstall ==
    \/ \E ticker \in Tickers : \E filings \in InstallFilings(ticker) :
          WriteFeatures(ticker, filings)
    \/ \E call \in InstallCalls :
          NormalizedInstall(call.tickers, call.recreate_tables)
    \/ \E call \in InstallReads : NormalizedFromRefined(call)
    \/ \E call \in InstallReads : QuarterlyFromRefined(call)
    \/ \E call \in InstallIndustryReads : IndustryFromRefined(call)
    \/ \E lb \in LowerBounds : QuarterlyGetTickerSet(lb)
    \/ \E lb \in LowerBounds : NormalizedGetTickerSet(lb)

SpecInstall == InitInstall /\ [][NextInstall]_vars

-----------------------------------------------------------------------------
(* Properties of the normalized store.                                     *)

\* The companies that have rows in the normalized table.
Persisted ==
    {s.ticker : s \in {t \in submissions :
                          \E r \in normalized_quarterly : r.cik = t.cik}}

ReadBack(ticker) ==
    /\ out.done
    /\ out.call = "normalized.from_refined"
    /\ out.args = ReadCall(ticker, DefaultStart, DefaultEnd)
    /\ out.result.err = ""

\* C12: for every company that has persisted normalized rows, the table
\* NormalizedQuarterly.from_refined reads back equals the table
\* NormalizedQuarterly.from_other_refined computes, at the default level,
\* from the feature rows the store holds: same rows, columns and values.
C12_PersistedEqualsComputed ==
    \A ticker \in Persisted :
        ReadBack(ticker) =>
            LET computed == from_other_refined(quarterly, ticker, DefaultLevel,
                                               DefaultStart, DefaultEnd)
            IN  /\ computed.err = ""
                /\ computed.table = out.result.table

\* The rows of a table that a read of a company matches.
Matching(table, call) ==
    {r \in table :
        /\ r.cik = (CHOOSE s \in submissions : s.ticker = call.ticker).cik
        /\ call.start <= r.filed
        /\ r.filed <= call.end}

StoreReads ==
    {"from_refined", "normalized.from_refined", "industry.from_refined"}

\* The rows the read held in out matches.
Matched ==
    CASE out.call = "from_refined" -> Matching(quarterly, out.args)
      [] out.call = "normalized.from_refined" ->
            Matching(normalized_quarterly, out.args)
      [] out.call = "industry.from_refined" ->
            RowsOfPrefix(out.result.code, out.args)

\* C16: a read of the store that matches no row for the company or the
\* industry and the dates asked (Quarterly.from_refined,
\* IndustryQuarterly.from_refined, NormalizedQuarterly.from_refined) raises
\* NoResultFound, and no read returns an empty table.
C16_NoRowsRaises ==
    (out.done /\ out.call \in StoreReads) =>
        /\ Matched = {} => out.result.err = "NoResultFound"
        /\ out.result.err = "" =>
              IF out.call = "industry.from_refined"
              THEN Len(out.result.rows) > 0
              ELSE Len(out.result.table.rows) > 0

\* The normalized table holds rows of the company read, none of them within
\* the dates asked, and the read has raised.
C16_Witness ==
    /\ out.done
    /\ out.call = "normalized.from_refined"
    /\ Matching(normalized_quarterly,
                ReadCall(out.args.ticker, DefaultStart, DefaultEnd)) # {}
    /\ Matched = {}
    /\ out.result.err = "NoResultFound"

\* The table a get_ticker_set held in out was made on.
TableOfTickerSet ==
    IF out.call = "get_ticker_set" THEN quarterly ELSE normalized_quarterly

\* The rows of a table that carry a feature of a company.
RowsOfFeature(table, ticker, name) ==
    {r \in table :
        /\ r.cik = (CHOOSE s \in submissions : s.ticker = ticker).cik
        /\ r.name = name}

\* C18: get_ticker_set(lb) returns exactly the companies that have, for
\* every one of the twelve feature names, at least lb stored rows of that
\* name; a company with lb rows or more in all but fewer than lb rows of
\* some feature is not returned.
C18_AtLeastLbRowsOfEveryFeature ==
    (out.done /\ out.call \in {"get_ticker_set", "normalized.get_ticker_set"}) =>
        out.result =
            {ticker \in Tickers :
                \A name \in ColumnSet :
                    Cardinality(RowsOfFeature(TableOfTickerSet, ticker, name))
                        >= out.args}

-----------------------------------------------------------------------------
(* The raw store and the features built from it: Quarterly.from_raw,       *)
(* Quarterly.from_api and Quarterly.install.                               *)
(*                                                                         *)
(* A row of sql.tags is a raw observation with the cik of its company:     *)
(* [cik, fy, fp, filed, tag, form, units, frame, value].  The rows are     *)
(* kept in the order they were inserted.                                   *)

\* The units of a concept.
ConceptUnits(tag) ==
    IF tag = "EarningsPerShareBasic" THEN "USD/shares" ELSE "USD"

\* The select of from_raw: the rows of sql.tags joined to the submissions
\* row of the ticker, of the concepts' tags, of form 10-Q, filed within
\* [start, end].
SelectRaw(tags, ticker, start, end) ==
    SelectSeq(tags,
        LAMBDA r :
            /\ \E s \in submissions : s.cik = r.cik /\ s.ticker = ticker
            /\ r.tag \in Range(concepts)
            /\ r.form = "10-Q"
            /\ r.filed >= start
            /\ r.filed <= end)

\* Quarterly.from_raw
from_raw(tags, ticker, start, end) ==
    LET df == SelectRaw(tags, ticker, start, end)
    IN  IF df = <<>> THEN Normalized("NoResultFound", NoTable)
        ELSE _normalize(df)

\* api.company_concept.get(tag, ticker=, taxonomy=, units=): the
\* observations the API holds of the tag for the company, which are the
\* ones the raw store was filled from.
company_concept_get(tags, tag, ticker, units) ==
    SelectSeq(tags,
        LAMBDA r :
            /\ \E s \in submissions : s.cik = r.cik /\ s.ticker = ticker
            /\ r.tag = tag
            /\ r.units = units)

\* The loop of from_api over concepts k..: get, get_unique_filings, the
\* date filter, dfs.append; pd.concat(dfs).
RECURSIVE ApiFrames(_, _, _, _, _)
ApiFrames(tags, ticker, start, end, k) ==
    IF k > Len(concepts) THEN <<>>
    ELSE SelectSeq(
             get_unique_filings(
                 company_concept_get(tags, concepts[k], ticker,
                                     ConceptUnits(concepts[k])),
                 "10-Q", ConceptUnits(concepts[k])),
             LAMBDA r : r.filed >= start /\ r.filed <= end)
         \o ApiFrames(tags, ticker, start, end, k + 1)

\* Quarterly.from_api
from_api(tags, ticker, start, end) ==
    _normalize(ApiFrames(tags, ticker, start, end, 1))

\* Quarterly.get_candidate_ticker_set: the tickers of submissions joined to
\* sql.tags on cik, form 10-Q, grouped by cik, having at least lb rows of
\* every concept's tag.
quarterly_candidate_ticker_set(tags, lb) ==
    {s.ticker : s \in
        {t \in submissions :
            /\ \E i \in DOMAIN tags : tags[i].cik = t.cik /\ tags[i].form = "10-Q"
            /\ \A k \in DOMAIN concepts :
                  Cardinality({i \in DOMAIN tags :
                                  /\ tags[i].cik = t.cik
                                  /\ tags[i].form = "10-Q"
                                  /\ tags[i].tag = concepts[k]}) >= lb}}

\* The loop of Quarterly.install over the tickers in the order they are
\* iterated: from_raw at the defaults, to_refined when the dataframe has
\* rows, any exception caught and the ticker skipped.
RECURSIVE quarterly_install_loop(_, _, _)
quarterly_install_loop(tags, tickers, acc) ==
    IF tickers = <<>> THEN acc
    ELSE LET ticker == Head(tickers)
             df == from_raw(tags, ticker, DefaultStart, DefaultEnd)
             rowcount == Len(df.table.rows)
             err == IF df.err # "" THEN df.err
                    ELSE IF rowcount = 0 THEN ""
                    ELSE ToRefinedError(acc.table, ticker, df.table)
             wrote == err = "" /\ rowcount > 0
         IN  quarterly_install_loop(tags, Tail(tickers),
                 Installed(
                     IF wrote THEN ToRefinedTable(acc.table, ticker, df.table)
                     ELSE acc.table,
                     IF wrote THEN acc.total_rows + rowcount ELSE acc.total_rows,
                     Append(acc.outcomes,
                         Outcome(ticker, err, rowcount,
                                 IF wrote THEN ToRefinedCount(ticker, df.table)
                                 ELSE 0))))

\* Quarterly.install on the tickers given: the table is dropped and
\* created when recreate_tables is set, then the loop runs.
quarterly_install(tags, table, tickers, recreate_tables) ==
    quarterly_install_loop(tags, tickers,
        Installed(IF recreate_tables THEN {} ELSE table, 0, <<>>))

-----------------------------------------------------------------------------
(* The behaviours of the installation: filings arrive in the raw store,    *)
(* the features are installed from the raw store and the normalized        *)
(* features from the features, and a company's features are built from     *)
(* the raw store and from the API.                                         *)

\* A filing's rows in sql.tags: the observations of a report, with the cik,
\* the form and the units; a 10-K reports the fiscal year.  The values of
\* a company are its industry's plus its offset.
Filing(ticker, profile, p, form) ==
    LET report == Report(profile, p)
    IN  [k \in DOMAIN report |->
            [cik |-> get_cik(ticker),
             fy |-> report[k].fy,
             fp |-> IF form = "10-K" THEN "FY" ELSE report[k].fp,
             filed |-> report[k].filed,
             tag |-> report[k].tag,
             form |-> form,
             units |-> ConceptUnits(report[k].tag),
             frame |-> Null,
             value |-> Add(report[k].value, Num(TickerOffset(ticker)))]]

\* The filings that arrive.
Filings ==
    { Filing("GM", "complete", PeriodSeq[1], "10-Q"),
      Filing("GM", "complete", PeriodSeq[1], "10-K"),
      Filing("HOG", "complete", PeriodSeq[1], "10-Q"),
      Filing("HOG", "restated", PeriodSeq[1], "10-Q"),
      Filing("HOG", "no_equity", PeriodSeq[1], "10-Q"),
      Filing("F", "complete", PeriodSeq[1], "10-Q") }

\* The calls of Quarterly.install.
RawInstallCalls ==
    { [tickers |-> <<>>, recreate_tables |-> FALSE],
      [tickers |-> <<"GM", "HOG", "F">>, recreate_tables |-> TRUE] }

\* The companies whose features are built.
RawReaders == {"GM", "HOG", "KR"}

InitRaw ==
    /\ quarterly = {}
    /\ normalized_quarterly = {}
    /\ quarterly_features = {}
    /\ ret = NoCall
    /\ log = <<>>
    /\ prev = {}
    /\ cache = {}
    /\ pool = NoPool
    /\ obs = <<>>
    /\ out = NotRelative

\* The rows of a filing are inserted into sql.tags.
AddFiling(filing) ==
    /\ Cardinality({<<obs[i].cik, obs[i].form>> : i \in DOMAIN obs}) < MaxFilings
    /\ \A i \in DOMAIN obs :
          <<obs[i].cik, obs[i].form>> # <<filing[1].cik, filing[1].form>>
    /\ obs' = obs \o filing
    /\ out' = NotRelative
    /\ UNCHANGED <<normalized_quarterly, quarterly, ret, log, prev,
                   quarterly_features, cache, pool>>

\* Quarterly.install: tickers or the candidate set, in the order the set
\* is iterated.
QuarterlyInstall(tickers, recreate_tables) ==
    /\ Len(log) < MaxInstalls
    /\ ~out.done
    /\ \E order \in (IF tickers = <<>>
                     THEN Orders(quarterly_candidate_ticker_set(obs, 1))
                     ELSE {tickers}) :
          LET done == quarterly_install(obs, quarterly, order, recreate_tables)
          IN  /\ quarterly' = done.table
              /\ UNCHANGED cache
              /\ prev' = IF recreate_tables THEN {} ELSE quarterly
              /\ log' = Append(log, InstallLog("install", order, done.outcomes))
              /\ ret' = Returned("install", "", NoTable, NoTable,
                                 done.total_rows)
    /\ UNCHANGED <<normalized_quarterly, obs, out, quarterly_features, pool>>

\* Quarterly.from_raw(ticker)
FromRaw(ticker) ==
    /\ ~out.done
    /\ out' = Answer("from_raw", ReadCall(ticker, DefaultStart, DefaultEnd),
                     from_raw(obs, ticker, DefaultStart, DefaultEnd))
    /\ UNCHANGED <<normalized_quarterly, quarterly, ret, log, prev, obs,
                   quarterly_features, cache, pool>>

\* Quarterly.from_api(ticker)
FromApi(ticker) ==
    /\ ~out.done
    /\ out' = Answer("from_api", ReadCall(ticker, DefaultStart, DefaultEnd),
                     from_api(obs, ticker, DefaultStart, DefaultEnd))
    /\ UNCHANGED <<normalized_quarterly, quarterly, ret, log, prev, obs,
                   quarterly_features, cache, pool>>

NextRaw ==
    \/ \E filing \in Filings : AddFiling(filing)
    \/ \E call \in RawInstallCalls :
          QuarterlyInstall(call.tickers, call.recreate_tables)
    \/ NormalizedInstall(<<"GM", "HOG", "F">>, FALSE)

SpecRaw == InitRaw /\ [][NextRaw]_vars


-----------------------------------------------------------------------------
(* The older module features.py: QuarterlyFeatures builds a company's      *)
(* features from sql.tags with from_sql and installs them into             *)
(* sql.quarterly_features from a pool of worker processes.                 *)
(*                                                                         *)
(* Its _normalize passes the cells through utils.quantile_clip, which is   *)
(* not among the sources, and nothing here reads a cell: a dataframe of    *)
(* this module is carried by its index, a row of sql.quarterly_features by *)
(* [cik, fy, fp, filed, name].                                             *)

\* QuarterlyFeatures.concepts: the tags pulled for a company.
features_concepts ==
    << "AssetsCurrent", "EarningsPerShareBasic", "InventoryNet",
       "LiabilitiesCurrent", "NetIncomeLoss", "OperatingIncomeLoss",
       "StockholdersEquity" >>

\* QuarterlyFeatures.columns
features_columns ==
    << "AssetsCurrent_pct_change", "DebtEquityRatio", "EarningsPerShare",
       "InventoryNet_pct_change", "LiabilitiesCurrent_pct_change",
       "NetIncomeLoss_pct_change", "OperatingIncomeLoss_pct_change",
       "PriceBookRatio", "QuickRatio", "ReturnOnEquity",
       "StockholdersEquity_pct_change", "WorkingCapitalRatio" >>

\* The tags the ratio columns and EarningsPerShare are computed from: a
\* period without one of them has a missing cell and is dropped by dropna.
\* The percent changes are filled by safe_pct_change and are never missing.
FeaturesRatioTags ==
    { "AssetsCurrent", "EarningsPerShareBasic", "InventoryNet",
      "LiabilitiesCurrent", "NetIncomeLoss", "StockholdersEquity" }

FeaturesFrame(err, index) == [done |-> TRUE, err |-> err, index |-> index]

\* QuarterlyFeatures._normalize: set_index finds no column in an empty
\* dataframe (KeyError), pivot refuses a tag reported twice in a period
\* (ValueError), a concept without a column cannot be read (KeyError);
\* otherwise the index of the rows that dropna keeps, sorted.
features_normalize(df) ==
    IF df = <<>> THEN FeaturesFrame("KeyError", <<>>)
    ELSE IF PivotHasDuplicates(df) THEN FeaturesFrame("ValueError", <<>>)
    ELSE IF ~(Range(features_concepts) \subseteq {df[i].tag : i \in DOMAIN df})
         THEN FeaturesFrame("KeyError", <<>>)
         ELSE FeaturesFrame("",
                  SortKeys({k \in PivotIndex(df) :
                      \A t \in FeaturesRatioTags :
                          ~IsNaN(TagCell(df, <<k.fy, k.fp>>, t))}))

\* The select of from_sql: the rows of sql.tags of the company's cik, of
\* the concepts' tags, filed within [start, end], whatever their form.
SelectSql(tags, ticker, start, end) ==
    SelectSeq(tags,
        LAMBDA r :
            /\ r.cik = get_cik(ticker)
            /\ r.tag \in Range(features_concepts)
            /\ r.filed >= start
            /\ r.filed <= end)

\* QuarterlyFeatures.from_sql
from_sql(tags, ticker, start, end) ==
    features_normalize(SelectSql(tags, ticker, start, end))

\* QuarterlyFeatures.to_store: the melted rows of the dataframe with the
\* company's cik.
features_to_store(ticker, index) ==
    {[cik |-> get_cik(ticker), fy |-> index[i].fy, fp |-> index[i].fp,
      filed |-> index[i].filed, name |-> features_columns[k]] :
        i \in DOMAIN index, k \in DOMAIN features_columns}

\* QuarterlyFeatures.get_candidate_ticker_set: the tickers of the ciks of
\* sql.tags that have at least lb rows of every concept's tag.
features_candidate_ticker_set(tags, lb) ==
    {s.ticker : s \in
        {t \in submissions :
            /\ \E i \in DOMAIN tags : tags[i].cik = t.cik
            /\ \A k \in DOMAIN features_concepts :
                  Cardinality({i \in DOMAIN tags :
                                  /\ tags[i].cik = t.cik
                                  /\ tags[i].tag = features_concepts[k]}) >= lb}}

\* QuarterlyFeatures.get_ticker_set: the tickers of the ciks of
\* sql.quarterly_features, group_by(cik), having(count(name == col) >= lb
\* for every col).
features_get_ticker_set(table, lb) ==
    {s.ticker : s \in
        {t \in submissions :
            /\ \E r \in table : r.cik = t.cik
            /\ \A k \in DOMAIN features_columns :
                  CountNameEquals({r \in table : r.cik = t.cik},
                                  features_columns[k]) >= lb}}

\* The entries functools.cache keeps for a function and the arguments of a
\* call.
Memo(memo, func, args) == {e \in memo : e.func = func /\ e.args = args}

\* @cache around a class method: the result kept for the arguments of the
\* call when there is one, else the value computed, which is kept.  No
\* entry is ever removed.
Cached(memo, func, args, value) ==
    IF Memo(memo, func, args) # {}
    THEN [result |-> (CHOOSE e \in Memo(memo, func, args) : TRUE).result,
          cache |-> memo]
    ELSE [result |-> value,
          cache |-> memo \cup
                        {[func |-> func, args |-> args, result |-> value]}]

\* lb of a call: the positional argument, or the default.
Lb(args) == IF args = <<>> THEN 1 ELSE args[1]

\* _install_quarterly_features: what a worker does for a ticker.  It
\* raises what from_sql raises; it writes nothing when the dataframe has no
\* rows.
_install_quarterly_features(tags, ticker) ==
    LET df == from_sql(tags, ticker, DefaultStart, DefaultEnd)
        rowcount == Len(df.index)
    IN  [ticker |-> ticker,
         err |-> df.err,
         rowcount |-> rowcount,
         rows |-> IF df.err = "" /\ rowcount > 0
                  THEN features_to_store(ticker, df.index) ELSE {}]

-----------------------------------------------------------------------------
(* The behaviours of the builders and of the older installation: filings   *)
(* arrive in the raw store, a company's features are built from the raw    *)
(* store, from the API and by the older module, and the older module       *)
(* installs its table.                                                     *)

\* The filings that arrive: none whose ratios divide by zero, which
\* quantile_clip would be handed as infinities.
FeaturesFilings ==
    { Filing("GM", "complete", PeriodSeq[1], "10-Q"),
      Filing("GM", "complete", PeriodSeq[1], "10-K"),
      Filing("HOG", "complete", PeriodSeq[1], "10-Q"),
      Filing("HOG", "restated", PeriodSeq[1], "10-Q"),
      Filing("F", "no_eps", PeriodSeq[1], "10-Q") }

\* QuarterlyFeatures.from_sql(ticker)
FromSql(ticker) ==
    /\ ~out.done
    /\ out' = Answer("from_sql", ReadCall(ticker, DefaultStart, DefaultEnd),
                     from_sql(obs, ticker, DefaultStart, DefaultEnd))
    /\ UNCHANGED <<normalized_quarterly, quarterly, ret, log, prev, obs,
                   quarterly_features, cache, pool>>

NextBuild ==
    \/ \E filing \in FeaturesFilings : AddFiling(filing)
    \/ \E ticker \in RawReaders : FromRaw(ticker)
    \/ \E ticker \in RawReaders : FromApi(ticker)
    \/ \E ticker \in RawReaders : FromSql(ticker)

SpecBuild == InitRaw /\ [][NextBuild]_vars

\* The least of a set of positions.
FirstOf(P) == CHOOSE i \in P : \A j \in P : i <= j

\* total_rows += rows over the first n results.
RECURSIVE RowsYielded(_, _)
RowsYielded(results, n) ==
    IF n = 0 THEN 0 ELSE results[n].rowcount + RowsYielded(results, n - 1)

\* QuarterlyFeatures.install: the table is dropped and created, and the
\* candidate tickers, as the memoized get_candidate_ticker_set() gives
\* them, are handed to the pool.  The workers' results come
\* back in the order the workers finish; a result that is an exception is
\* raised from the loop and ends the pool, the workers that had not yet
\* answered having written their rows or not.
FeaturesInstall ==
    /\ Len(log) < MaxInstalls
    /\ ~out.done
    /\ LET tickers == Cached(cache, "get_candidate_ticker_set", <<>>,
                             features_candidate_ticker_set(obs, 1))
       IN
       \E order \in Orders(tickers.result) :
          LET results == [i \in DOMAIN order |->
                             _install_quarterly_features(obs, order[i])]
              failed == {i \in DOMAIN order : results[i].err # ""}
              stop == IF failed = {} THEN Len(order) ELSE FirstOf(failed)
              total_rows == RowsYielded(results, stop)
          IN  \E late \in SUBSET {i \in DOMAIN order :
                                     i > stop /\ results[i].err = ""} :
                  /\ quarterly_features' =
                         UNION {results[i].rows : i \in (1..stop) \cup late}
                  /\ cache' = tickers.cache
                  /\ prev' = {}
                  /\ log' = Append(log,
                         InstallLog("features.install", order,
                             [i \in 1..stop |->
                                 Outcome(order[i], results[i].err,
                                         results[i].rowcount,
                                         Cardinality(results[i].rows))]))
                  /\ ret' = IF failed = {}
                            THEN Returned("features.install", "", NoTable,
                                          NoTable, total_rows)
                            ELSE Raised("features.install", "", NoTable,
                                        results[stop].err)
    /\ UNCHANGED <<quarterly, normalized_quarterly, obs, out, pool>>

NextFeatures ==
    \/ \E filing \in FeaturesFilings : AddFiling(filing)
    \/ FeaturesInstall

SpecFeatures == InitRaw /\ [][NextFeatures]_vars

-----------------------------------------------------------------------------
(* Properties of the builders.                                             *)

BuildCalls == {"from_raw", "from_api", "from_sql"}

\* The observations of the company that remain after the restriction to
\* the concepts' tags, form 10-Q and the date range of the call.
Remaining(args) ==
    {i \in DOMAIN obs :
        /\ obs[i].cik = get_cik(args.ticker)
        /\ obs[i].tag \in Range(concepts)
        /\ obs[i].form = "10-Q"
        /\ obs[i].filed >= args.start
        /\ obs[i].filed <= args.end}

\* C17: building a company's features from raw observations (from_raw,
\* from_api, from_sql) fails with the no-data error whenever no observation
\* of form 10-Q within the date range remains; no table is returned then.
C17_NoObservationRaisesNoData ==
    (out.done /\ out.call \in BuildCalls /\ Remaining(out.args) = {})
        => out.result.err = "NoResultFound"

-----------------------------------------------------------------------------
(* Properties of the installation.                                         *)

\* The last call of install, and the table it writes.
LastInstall == log[Len(log)]

InstalledTable ==
    CASE LastInstall.op = "install" -> quarterly
      [] LastInstall.op = "normalized.install" -> normalized_quarterly
      [] LastInstall.op = "features.install" -> quarterly_features

\* The sum of the row counts to_refined returned in the call.
RECURSIVE RowsWritten(_)
RowsWritten(outcomes) ==
    IF outcomes = <<>> THEN 0
    ELSE Head(outcomes).written + RowsWritten(Tail(outcomes))

\* C20: the integer install returns (Quarterly.install and
\* NormalizedQuarterly.install) is the number of rows the call wrote to the
\* feature's table: the sum of the row counts to_refined returned for the
\* companies written, which is the number of rows the table gained.
C20_InstallReturnsRowsWritten ==
    (log # <<>> /\ LastInstall.op \in {"install", "normalized.install"})
        => /\ ret.n = RowsWritten(LastInstall.outcomes)
           /\ ret.n = Cardinality(InstalledTable \ prev)

\* The rows of a company in a table.
RowsOfTicker(table, ticker) == {r \in table : r.cik = get_cik(ticker)}

\* The row counts of the companies that did not fail, summed.
RECURSIVE RowsCounted(_)
RowsCounted(outcomes) ==
    IF outcomes = <<>> THEN 0
    ELSE (IF Head(outcomes).err = "" THEN Head(outcomes).rowcount ELSE 0)
         + RowsCounted(Tail(outcomes))

\* C19: during install a failure while transforming or writing one company
\* makes only that company skipped: install returns normally, every
\* company of the call is processed once in turn and none is retried, a
\* company that failed leaves no row, a company that did not fail has its
\* rows written, and the integer returned counts the companies that did
\* not fail.
C19_FailureSkipsOnlyThatEntity ==
    log # <<>> =>
        /\ ret.err = ""
        /\ Len(LastInstall.outcomes) = Len(LastInstall.tickers)
        /\ \A i \in DOMAIN LastInstall.outcomes :
              LET o == LastInstall.outcomes[i]
                  gained == RowsOfTicker(InstalledTable, o.ticker)
                                \ RowsOfTicker(prev, o.ticker)
              IN  /\ o.ticker = LastInstall.tickers[i]
                  /\ o.err # "" => gained = {}
                  /\ o.err = "" => Cardinality(gained) = o.written
        /\ ret.n = RowsCounted(LastInstall.outcomes)

-----------------------------------------------------------------------------
(* Properties of the order of the rows returned.                           *)

\* The rows are in the order of their filed dates.
SortedByFiled(rows) ==
    \A i \in DOMAIN rows :
        i < Len(rows) => rows[i].filed <= rows[i + 1].filed

\* C21: the table Quarterly.from_refined returns, like the one from_raw
\* returns, is sorted by filing date: of two consecutive rows the earlier
\* is not filed later than the later one.
C21_SortedByFilingDate ==
    (ret.op = "from_refined" /\ ret.err = "") => SortedByFiled(ret.table.rows)

-----------------------------------------------------------------------------
(* NormalizedQuarterly.get_tickers_sorted_by.                              *)

\* The year and quarter arguments that stand for the latest.
Latest == -1

\* sa.func.max(sql.normalized_quarterly.c.fy) over the whole table.
MaxFy(table) ==
    CHOOSE y \in {r.fy : r \in table} : \A r \in table : r.fy <= y

\* sa.func.max(sql.normalized_quarterly.c.fp) over the whole table.
MaxFp(table) ==
    CHOOSE q \in {r.fp : r \in table} :
        \A r \in table : FpRank(r.fp) <= FpRank(q)

\* f"Q{quarter}"
QuarterName(quarter) ==
    CASE quarter = 1 -> "Q1"
      [] quarter = 2 -> "Q2"
      [] quarter = 3 -> "Q3"
      [] quarter = 4 -> "Q4"

\* The order of two stored values.
ValueLess(x, y) == x[1] * y[2] < y[1] * x[2]

\* The rows the select finds: those of the column, the year and the period.
SortedBySelect(table, column, year, fp) ==
    {r \in table : r.name = column /\ r.fy = year /\ r.fp = fp}

\* order_by(value): the orders in which the database may return the rows,
\* rows of equal value in either order.
OrderedByValue(rows) ==
    {o \in Orders(rows) :
        \A i, j \in DOMAIN o : i < j => ~ValueLess(o[j].value, o[i].value)}

\* The ticker of the submissions row joined to a row.
TickerOf(r) == (CHOOSE s \in submissions : s.cik = r.cik).ticker

Sorted(err, tickers) == [err |-> err, tickers |-> tickers]

\* NormalizedQuarterly.get_tickers_sorted_by: the lists it may return.  On
\* an empty table max(fy) is NULL and int(None) raises TypeError.
get_tickers_sorted_by(table, column, ascending, year, quarter) ==
    IF year = Latest /\ table = {} THEN {Sorted("TypeError", <<>>)}
    ELSE LET y == IF year = Latest THEN MaxFy(table) ELSE year
             fp == IF quarter = Latest
                   THEN (IF table = {} THEN "None" ELSE MaxFp(table))
                   ELSE QuarterName(quarter)
         IN  {Sorted("",
                  LET tickers == [i \in DOMAIN o |-> TickerOf(o[i])]
                  IN  IF ascending THEN tickers ELSE Reverse(tickers)) :
                 o \in OrderedByValue(SortedBySelect(table, column, y, fp))}

-----------------------------------------------------------------------------
(* The behaviours of the sorted tickers: normalized features are written    *)
(* for companies and the tickers are asked for in the order of a column.    *)

\* The tables written: one or two periods, with two sets of values.
SortedTables ==
    {InputTable(columns, SortKeys(K), variant) :
        K \in FirstDateKeySets, variant \in {0, 1}}

\* The calls of get_tickers_sorted_by.
SortedCall(column, ascending, year, quarter) ==
    [column |-> column, ascending |-> ascending, year |-> year,
     quarter |-> quarter]

SortedCalls ==
    { SortedCall("EarningsPerShare", TRUE, Latest, Latest),
      SortedCall("EarningsPerShare", FALSE, Latest, Latest),
      SortedCall("QuickRatio", TRUE, 2020, 2),
      SortedCall("QuickRatio", FALSE, 2021, Latest) }

\* NormalizedQuarterly.to_refined(ticker, df)
NormalizedToRefined(ticker, df) ==
    LET err == normalized_to_refined_error(normalized_quarterly, ticker, df)
    IN  /\ Len(log) < MaxCalls
        /\ UNCHANGED cache
        /\ prev' = normalized_quarterly
        /\ normalized_quarterly' =
               normalized_to_refined(normalized_quarterly, ticker, df)
        /\ ret' = IF err = ""
                  THEN Returned("normalized.to_refined", ticker, df, NoTable,
                                ToRefinedCount(ticker, df))
                  ELSE Raised("normalized.to_refined", ticker, df, err)
        /\ log' = Append(log, [ticker |-> ticker, df |-> df, err |-> err])
        /\ out' = NotRelative
        /\ UNCHANGED <<quarterly, obs, quarterly_features, pool>>

\* NormalizedQuarterly.get_tickers_sorted_by(column, ascending=, year=,
\* quarter=)
GetTickersSortedBy(call) ==
    /\ ~out.done
    /\ \E result \in get_tickers_sorted_by(normalized_quarterly, call.column,
                         call.ascending, call.year, call.quarter) :
          out' = Answer("get_tickers_sorted_by", call, result)
    /\ UNCHANGED <<normalized_quarterly, quarterly, ret, log, prev, obs,
                   quarterly_features, cache, pool>>

NextSorted ==
    \/ \E ticker \in Tickers, df \in SortedTables :
          NormalizedToRefined(ticker, df)
    \/ \E call \in SortedCalls : GetTickersSortedBy(call)

SpecSorted == InitInstall /\ [][NextSorted]_vars

-----------------------------------------------------------------------------
(* Properties of the sorted tickers.                                       *)

\* The rows of the column asked for.
ColumnRows == {r \in normalized_quarterly : r.name = out.args.column}

\* The most recent year that has data, the most recent quarter of that year
\* that has data, and the rows of the column in that period.
LatestYear ==
    CHOOSE y \in {r.fy : r \in normalized_quarterly} :
        \A r \in normalized_quarterly : r.fy <= y

LatestQuarter ==
    LET qs == {r.fp : r \in {t \in normalized_quarterly : t.fy = LatestYear}}
    IN  CHOOSE q \in qs : \A p \in qs : FpRank(p) <= FpRank(q)

LatestRows ==
    {r \in ColumnRows : r.fy = LatestYear /\ r.fp = LatestQuarter}

\* The value the latest period holds for a ticker.
LatestValue(ticker) ==
    (CHOOSE r \in LatestRows : TickerOf(r) = ticker).value

\* C22: get_tickers_sorted_by with the default year and quarter, on a table
\* that holds rows of the column, returns a non-empty list: the tickers of
\* the most recent quarter with data of the most recent year with data,
\* each once, in ascending order of the column's value, or in descending
\* order when ascending is False.
C22_LatestPeriodSortedByValue ==
    (/\ out.done
     /\ out.call = "get_tickers_sorted_by"
     /\ out.args.year = Latest
     /\ out.args.quarter = Latest
     /\ ColumnRows # {})
        => LET tickers == out.result.tickers
           IN  /\ out.result.err = ""
               /\ tickers # <<>>
               /\ Len(tickers) = Cardinality(LatestRows)
               /\ Range(tickers) = {TickerOf(r) : r \in LatestRows}
               /\ \A i, j \in DOMAIN tickers :
                     i < j =>
                        IF out.args.ascending
                        THEN ~ValueLess(LatestValue(tickers[j]),
                                        LatestValue(tickers[i]))
                        ELSE ~ValueLess(LatestValue(tickers[i]),
                                        LatestValue(tickers[j]))

-----------------------------------------------------------------------------
(* shark.sec.scrape.run: the raw table is dropped and filled from the API   *)
(* for the tickers given, concept by concept.                               *)
(*                                                                         *)
(* A concept is the dictionary the caller hands in: a function from some   *)
(* of the keys "tag", "taxonomy", "units" to strings.  run pops the keys   *)
(* it reads from the caller's dictionaries.                                *)

\* dict.pop(key): the dictionary without the key.
Pop(dict, key) == [k \in DOMAIN dict \ {key} |-> dict[k]]

\* dict.pop(key, default): the value removed.
PopValue(dict, key, default) ==
    IF key \in DOMAIN dict THEN dict[key] ELSE default

\* What the API holds: the filings of three companies.
ApiFacts ==
    Filing("GM", "complete", PeriodSeq[1], "10-Q")
    \o Filing("GM", "complete", PeriodSeq[1], "10-K")
    \o Filing("HOG", "restated", PeriodSeq[1], "10-Q")
    \o Filing("F", "complete", PeriodSeq[2], "10-Q")

\* What run has done so far: the caller's dictionaries, the rows inserted
\* into sql.tags, tickers_to_inserts, and the exception raised if any.
Scraped(dicts, tags, inserts, err) ==
    [dicts |-> dicts, tags |-> tags, inserts |-> inserts, err |-> err]

\* The loop over the concepts k.. for a ticker: the keys are popped from
\* the k-th dictionary (KeyError when it has no "tag"), the concept is
\* fetched and made unique, its rows are counted and inserted.
RECURSIVE scrape_concepts(_, _, _)
scrape_concepts(ticker, k, acc) ==
    IF acc.err # "" \/ k > Len(acc.dicts) THEN acc
    ELSE IF "tag" \notin DOMAIN acc.dicts[k]
         THEN Scraped(acc.dicts, acc.tags, acc.inserts, "KeyError")
         ELSE LET concept == acc.dicts[k]
                  tag == concept["tag"]
                  units == PopValue(concept, "units", "USD")
                  df == get_unique_filings(
                            company_concept_get(ApiFacts, tag, ticker, units),
                            "10-Q", units)
              IN  scrape_concepts(ticker, k + 1,
                      Scraped(
                          [acc.dicts EXCEPT ![k] =
                              Pop(Pop(Pop(concept, "tag"), "taxonomy"), "units")],
                          acc.tags \o df,
                          [acc.inserts EXCEPT ![ticker] = @ + Len(df)],
                          ""))

\* The loop over the tickers in the order the set is iterated: with no
\* concepts all the company's facts are inserted; otherwise the count
\* starts at 0 and the concepts are scraped.
RECURSIVE scrape_tickers(_, _, _)
scrape_tickers(order, concepts_given, acc) ==
    IF acc.err # "" \/ order = <<>> THEN acc
    ELSE LET ticker == Head(order)
             facts == SelectSeq(ApiFacts, LAMBDA r : r.cik = get_cik(ticker))
         IN  scrape_tickers(Tail(order), concepts_given,
                 IF ~concepts_given
                 THEN Scraped(acc.dicts, acc.tags \o facts,
                              [t \in DOMAIN acc.inserts \cup {ticker} |->
                                  IF t = ticker THEN Len(facts)
                                  ELSE acc.inserts[t]],
                              "")
                 ELSE scrape_concepts(ticker, 1,
                          Scraped(acc.dicts, acc.tags,
                              [t \in DOMAIN acc.inserts \cup {ticker} |->
                                  IF t = ticker THEN 0 ELSE acc.inserts[t]],
                              "")))

\* The dictionary with no entry.
NoInserts == [t \in {} |-> 0]

\* run(tickers, concepts=) with the tickers iterated in an order: the
\* tables are dropped and created, then the loops run.
scrape_run(order, concepts_given, dicts) ==
    scrape_tickers(order, concepts_given, Scraped(dicts, <<>>, NoInserts, ""))

-----------------------------------------------------------------------------
(* The behaviours of the scrape: run is called with lists of tickers and    *)
(* of concepts.                                                            *)

\* The concept dictionaries a caller writes.
ConceptDict(tag) ==
    [k \in {"tag", "taxonomy", "units"} |->
        CASE k = "tag" -> tag
          [] k = "taxonomy" -> "us-gaap"
          [] k = "units" -> ConceptUnits(tag)]

TagOnly(tag) == [k \in {"tag"} |-> tag]

\* The lists of tickers and of concepts run is called with; concepts is
\* None when it is not given.
ScrapeTickers ==
    { <<"GM">>, <<"HOG">>, <<"GM", "HOG">>, <<"GM", "GM">>,
      <<"F", "HOG", "GM">> }

Concepts(given, dicts) == [given |-> given, dicts |-> dicts]

ScrapeConcepts ==
    { Concepts(FALSE, <<>>),
      Concepts(TRUE, <<>>),
      Concepts(TRUE, <<ConceptDict("AssetsCurrent")>>),
      Concepts(TRUE, <<TagOnly("AssetsCurrent")>>),
      Concepts(TRUE, <<ConceptDict("AssetsCurrent"),
                       ConceptDict("EarningsPerShareBasic")>>),
      Concepts(TRUE, <<TagOnly("EarningsPerShareBasic"),
                       ConceptDict("InventoryNet")>>) }

\* shark.sec.scrape.run(tickers, concepts=)
ScrapeRun(tickers, concepts_arg) ==
    /\ Len(log) < MaxCalls
    /\ \E order \in Orders(Range(tickers)) :
          LET done == scrape_run(order, concepts_arg.given, concepts_arg.dicts)
          IN  /\ obs' = done.tags
              /\ ret' = [op |-> "scrape.run", err |-> done.err,
                         tickers_to_inserts |->
                             IF done.err = "" THEN done.inserts
                             ELSE NoInserts]
              /\ log' = Append(log, [tickers |-> tickers,
                                     concepts |-> concepts_arg,
                                     order |-> order])
    /\ UNCHANGED <<quarterly, normalized_quarterly, quarterly_features, prev,
                   out, cache, pool>>

NextScrape ==
    \E tickers \in ScrapeTickers, concepts_arg \in ScrapeConcepts :
        ScrapeRun(tickers, concepts_arg)

SpecScrape == InitRaw /\ [][NextScrape]_vars

-----------------------------------------------------------------------------
(* Properties of the scrape.                                               *)

\* The last call of run.
LastScrape == log[Len(log)]

\* The rows of a concept as the caller listed it, for a ticker: what the
\* API holds of the tag in the units given, one row per period of a 10-Q.
ConceptRows(ticker, dict) ==
    LET units == PopValue(dict, "units", "USD")
    IN  get_unique_filings(
            company_concept_get(ApiFacts, dict["tag"], ticker, units),
            "10-Q", units)

\* The number of rows of the concepts k.. listed, for a ticker.
RECURSIVE RowsScraped(_, _, _)
RowsScraped(ticker, dicts, k) ==
    IF k > Len(dicts) THEN 0
    ELSE Len(ConceptRows(ticker, dicts[k])) + RowsScraped(ticker, dicts, k + 1)

\* C23: run, given a list of tickers and a list of concepts, scrapes every
\* concept listed for every ticker and returns a dictionary with one entry
\* per ticker, the number of rows scraped for it, however many tickers
\* were processed before it; the rows are those inserted.
C23_EveryConceptForEveryTicker ==
    (log # <<>> /\ LastScrape.concepts.given)
        => /\ ret.err = ""
           /\ DOMAIN ret.tickers_to_inserts = Range(LastScrape.tickers)
           /\ \A ticker \in Range(LastScrape.tickers) :
                 /\ ret.tickers_to_inserts[ticker] =
                        RowsScraped(ticker, LastScrape.concepts.dicts, 1)
                 /\ \A k \in DOMAIN LastScrape.concepts.dicts :
                       Range(ConceptRows(ticker, LastScrape.concepts.dicts[k]))
                           \subseteq Range(obs)

-----------------------------------------------------------------------------
(* The memoized ticker sets of features.py: filings arrive in the raw      *)
(* store, the older module installs its table, and the two ticker sets are *)
(* asked for.                                                              *)

\* The arguments of the calls: none, and lb given by position.
CacheArgs == {<<>>, <<1>>, <<2>>}

\* QuarterlyFeatures.get_candidate_ticker_set(*args)
GetCandidateTickerSet(args) ==
    /\ ~out.done
    /\ LET tickers == Cached(cache, "get_candidate_ticker_set", args,
                             features_candidate_ticker_set(obs, Lb(args)))
       IN  /\ out' = Answer("get_candidate_ticker_set", args, tickers.result)
           /\ cache' = tickers.cache
    /\ UNCHANGED <<normalized_quarterly, quarterly, ret, log, prev, obs,
                   quarterly_features, pool>>

\* QuarterlyFeatures.get_ticker_set(*args)
GetTickerSet(args) ==
    /\ ~out.done
    /\ LET tickers == Cached(cache, "get_ticker_set", args,
                             features_get_ticker_set(quarterly_features,
                                                     Lb(args)))
       IN  /\ out' = Answer("get_ticker_set", args, tickers.result)
           /\ cache' = tickers.cache
    /\ UNCHANGED <<normalized_quarterly, quarterly, ret, log, prev, obs,
                   quarterly_features, pool>>

NextCache ==
    \/ \E filing \in FeaturesFilings : AddFiling(filing)
    \/ FeaturesInstall
    \/ \E args \in CacheArgs : GetCandidateTickerSet(args)
    \/ \E args \in CacheArgs : GetTickerSet(args)

SpecCache == InitRaw /\ [][NextCache]_vars

-----------------------------------------------------------------------------
(* Properties of the memoized ticker sets.                                 *)

\* C25: get_ticker_set(lb) and get_candidate_ticker_set(lb) return the set
\* computed from the store as it is at the time of the call, never a
\* result computed before a write, and an install hands to its workers the
\* candidate set of the raw store as it is when the install starts.
C25_TickerSetsFollowTheStore ==
    [][ /\ (out'.done /\ ~out.done /\ out'.call = "get_candidate_ticker_set")
            => out'.result =
                   features_candidate_ticker_set(obs, Lb(out'.args))
        /\ (out'.done /\ ~out.done /\ out'.call = "get_ticker_set")
            => out'.result =
                   features_get_ticker_set(quarterly_features, Lb(out'.args))
        /\ (Len(log') > Len(log) /\ log'[Len(log')].op = "features.install")
            => Range(log'[Len(log')].tickers) =
                   features_candidate_ticker_set(obs, 1) ]_vars

-----------------------------------------------------------------------------
(* QuarterlyFeatures.install step by step: the main process starts the     *)
(* pool, each worker takes a ticker from the task queue, builds and stores *)
(* its features and puts its result on the result queue, and the loop of   *)
(* the main process takes the results as they come.                        *)

\* The numbers of worker processes asked for.
ProcessCounts == {1, 2}

\* The main process: the table is dropped and created, the candidate
\* tickers are asked of the memoized get_candidate_ticker_set(), and the
\* pool is started on them in the order the set is iterated.
PoolStarts(processes) ==
    /\ ~pool.active
    /\ Len(log) < MaxInstalls
    /\ ~out.done
    /\ LET tickers == Cached(cache, "get_candidate_ticker_set", <<>>,
                             features_candidate_ticker_set(obs, 1))
       IN  \E order \in Orders(tickers.result) :
              /\ cache' = tickers.cache
              /\ pool' = [active |-> TRUE, processes |-> processes,
                          tasks |-> order, next |-> 1,
                          held |-> [w \in 1..processes |-> ""],
                          handed |-> <<>>, results |-> <<>>, taken |-> 0,
                          total_rows |-> 0]
    /\ quarterly_features' = {}
    /\ UNCHANGED <<quarterly, normalized_quarterly, ret, log, prev, obs, out>>

\* The worker processes there can be.
Workers == UNION {1..processes : processes \in ProcessCounts}

\* A queue that hands its head to every worker: the head leaves the queue
\* only when the last worker took it.
WorkerTakesFromEveryone(w) ==
    /\ pool.active
    /\ w \in DOMAIN pool.held
    /\ pool.held[w] = ""
    /\ pool.next <= Len(pool.tasks)
    /\ \A i \in DOMAIN pool.handed :
          pool.handed[i] # [ticker |-> pool.tasks[pool.next], worker |-> w]
    /\ pool' = [pool EXCEPT
                   !.held[w] = pool.tasks[pool.next],
                   !.next = IF w = pool.processes THEN pool.next + 1
                            ELSE pool.next,
                   !.handed = Append(pool.handed,
                                  [ticker |-> pool.tasks[pool.next],
                                   worker |-> w])]
    /\ UNCHANGED <<quarterly, normalized_quarterly, quarterly_features, ret,
                   log, prev, cache, obs, out>>

\* A worker without a task takes the next one of the queue.
WorkerTakes(w) ==
    /\ pool.active
    /\ w \in DOMAIN pool.held
    /\ pool.held[w] = ""
    /\ pool.next <= Len(pool.tasks)
    /\ pool' = [pool EXCEPT
                   !.held[w] = pool.tasks[pool.next],
                   !.next = pool.next + 1,
                   !.handed = Append(pool.handed,
                                  [ticker |-> pool.tasks[pool.next],
                                   worker |-> w])]
    /\ UNCHANGED <<quarterly, normalized_quarterly, quarterly_features, ret,
                   log, prev, cache, obs, out>>

\* A worker runs _install_quarterly_features on its ticker: the rows are
\* written in one transaction, and the row count or the exception goes to
\* the result queue.
WorkerInstalls(w) ==
    /\ pool.active
    /\ w \in DOMAIN pool.held
    /\ pool.held[w] # ""
    /\ LET done == _install_quarterly_features(obs, pool.held[w])
       IN  /\ quarterly_features' = quarterly_features \cup done.rows
           /\ pool' = [pool EXCEPT
                          !.held[w] = "",
                          !.results = Append(pool.results,
                                         Outcome(done.ticker, done.err,
                                                 done.rowcount,
                                                 Cardinality(done.rows)))]
    /\ UNCHANGED <<quarterly, normalized_quarterly, ret, log, prev, cache,
                   obs, out>>

\* The loop over imap_unordered takes the next result: a row count is
\* added to total_rows; an exception is raised out of install, and leaving
\* the with block terminates the workers.
MainTakes ==
    /\ pool.active
    /\ pool.taken < Len(pool.results)
    /\ LET rows == pool.results[pool.taken + 1]
       IN  IF rows.err = ""
           THEN /\ pool' = [pool EXCEPT
                               !.taken = pool.taken + 1,
                               !.total_rows = pool.total_rows + rows.rowcount]
                /\ UNCHANGED <<ret, log, prev>>
           ELSE /\ pool' = [pool EXCEPT
                               !.active = FALSE,
                               !.taken = pool.taken + 1,
                               !.held = [w \in DOMAIN pool.held |-> ""]]
                /\ ret' = Raised("features.install", "", NoTable, rows.err)
                /\ log' = Append(log,
                              InstallLog("features.install", pool.tasks,
                                         SubSeq(pool.results, 1,
                                                pool.taken + 1)))
                /\ prev' = {}
    /\ UNCHANGED <<quarterly, normalized_quarterly, quarterly_features, cache,
                   obs, out>>

\* Every ticker's result was taken: the pool is closed and total_rows
\* returned.
MainReturns ==
    /\ pool.active
    /\ pool.taken = Len(pool.tasks)
    /\ pool' = [pool EXCEPT !.active = FALSE]
    /\ ret' = Returned("features.install", "", NoTable, NoTable,
                       pool.total_rows)
    /\ log' = Append(log, InstallLog("features.install", pool.tasks,
                                     pool.results))
    /\ prev' = {}
    /\ UNCHANGED <<quarterly, normalized_quarterly, quarterly_features, cache,
                   obs, out>>

\* A filing arrives while no install is under way.
AddFilingBetweenInstalls(filing) == ~pool.active /\ AddFiling(filing)

\* The filings that arrive here: three companies that install and one that
\* fails.
PoolFilings ==
    { Filing("GM", "complete", PeriodSeq[1], "10-Q"),
      Filing("HOG", "complete", PeriodSeq[1], "10-Q"),
      Filing("F", "complete", PeriodSeq[1], "10-Q"),
      Filing("HOG", "restated", PeriodSeq[1], "10-Q") }

NextPool ==
    \/ \E filing \in PoolFilings : AddFilingBetweenInstalls(filing)
    \/ \E processes \in ProcessCounts : PoolStarts(processes)
    \/ \E w \in Workers : WorkerTakes(w)
    \/ \E w \in Workers : WorkerInstalls(w)
    \/ MainTakes
    \/ MainReturns

SpecPool == InitRaw /\ [][NextPool]_vars

-----------------------------------------------------------------------------
(* Properties of the parallel installation.                                *)

\* The times a ticker was handed to a worker in the install under way or
\* last finished.
HandedTo(ticker) ==
    {i \in DOMAIN pool.handed : pool.handed[i].ticker = ticker}

\* The install returned and no other was started since.
InstallReturned ==
    /\ ~pool.active
    /\ pool.tasks # <<>>
    /\ ret.op = "features.install"
    /\ ret.err = ""

\* The row counts of the tickers of the install, each as
\* _install_quarterly_features gives it, summed in the order of the tasks.
SumOfRowCounts ==
    RowsYielded([i \in DOMAIN pool.tasks |->
                    _install_quarterly_features(obs, pool.tasks[i])],
                Len(pool.tasks))

\* C26: in every interleaving of the workers of a parallel install no
\* ticker is handed to a worker twice and no two workers hold the same
\* ticker, so the rows of a ticker are written by one worker; when the
\* install returns, every ticker was handed to a worker exactly once, its
\* rows in the table are those that worker wrote, and the total returned is
\* the sum of the row counts of the tickers, in whatever order the workers
\* finished.
C26_EachEntityToOneWorkerOnce ==
    /\ [](/\ \A t \in Range(pool.tasks) : Cardinality(HandedTo(t)) <= 1
          /\ \A v, w \in DOMAIN pool.held :
                (v # w /\ pool.held[v] # "") => pool.held[v] # pool.held[w]
          /\ InstallReturned =>
                /\ \A t \in Range(pool.tasks) : Cardinality(HandedTo(t)) = 1
                /\ \A i \in DOMAIN pool.results :
                      Cardinality(RowsOfTicker(quarterly_features,
                                               pool.results[i].ticker))
                          = pool.results[i].written
                /\ ret.n = RowsYielded(pool.results, Len(pool.results)))
    /\ [][(pool.active /\ ~pool'.active /\ ret'.err = "")
             => ret'.n = SumOfRowCounts]_vars

\* An install by two workers returned a total, the two workers each took a
\* ticker, and the first result to come was not that of the first ticker
\* handed out.
C26_Witness ==
    /\ InstallReturned
    /\ pool.processes = 2
    /\ Len(pool.tasks) >= 2
    /\ pool.handed[1].worker # pool.handed[2].worker
    /\ pool.results[1].ticker # pool.handed[1].ticker
    /\ ret.n > 0

-----------------------------------------------------------------------------
(* shark.sec.install.run: the raw tables are dropped and created, one      *)
(* search per ticker and concept is handed to the pool, and the main       *)
(* process takes the results in the order they arrive.                     *)

\* What the SEC API holds: a company with a complete quarterly report, one
\* with an annual report only, and one whose quarterly report has no
\* earnings per share.  The API knows nothing of the fourth company.
InstallFacts ==
    Filing("GM", "complete", PeriodSeq[1], "10-Q")
    \o Filing("HOG", "complete", PeriodSeq[1], "10-K")
    \o Filing("F", "no_eps", PeriodSeq[1], "10-Q")

\* The rows of a concept as the API gives them: the company's cik is a
\* column of each.
WithCik(cik, rows) ==
    [i \in DOMAIN rows |->
        [cik |-> cik, fy |-> rows[i].fy, fp |-> rows[i].fp,
         filed |-> rows[i].filed, tag |-> rows[i].tag, form |-> rows[i].form,
         units |-> rows[i].units, frame |-> rows[i].frame,
         value |-> rows[i].value]]

\* _get_valid_concept: the unique quarterly rows of the concept, or None
\* when the API raises (it has no fact of the concept for the company) or
\* when no row is left.
_get_valid_concept(ticker, tag, units) ==
    LET facts == company_concept_get(InstallFacts, tag, ticker, units)
        df == WithCik(get_cik(ticker),
                      IF facts = <<>> THEN <<>>
                      ELSE get_unique_filings(facts, "10-Q", units))
    IN  [none |-> Len(df) = 0, df |-> df]

\* _search
_search(params) ==
    [ticker |-> params.ticker, tag |-> params.tag,
     result |-> _get_valid_concept(params.ticker, params.tag, params.units)]

\* The searches of run: a copy of every concept for every ticker.
Searches(tickers) ==
    {[ticker |-> t, tag |-> features_concepts[k],
      units |-> ConceptUnits(features_concepts[k])] :
        t \in tickers, k \in DOMAIN features_concepts}

\* len(tickers_to_dfs[ticker]) == len(concepts), for any dataframe found.
AnyConceptFound(dfs) == Len(dfs) >= 1

\* len(tickers_to_dfs[ticker]) == len(concepts)
AllConceptsFound(dfs) == Len(dfs) = Len(features_concepts)

\* pd.concat(dfs)
RECURSIVE Concat(_)
Concat(dfs) == IF dfs = <<>> THEN <<>> ELSE Head(dfs) \o Concat(Tail(dfs))

\* The dataframes found for a ticker, kept in the order of the concepts.
RECURSIVE InConceptOrder(_, _)
InConceptOrder(found, k) ==
    IF k > Len(features_concepts) THEN <<>>
    ELSE (IF features_concepts[k] \in DOMAIN found
          THEN <<found[features_concepts[k]]>> ELSE <<>>)
         \o InConceptOrder(found, k + 1)

\* A dictionary without a key.
Without(dict, key) == [k \in DOMAIN dict \ {key} |-> dict[k]]

\* The sets of tickers indices.api.get_ticker_set gives.
IndexTickers == {{"GM", "F"}, {"HOG"}, {"F"}, {"KR"}}

\* run up to the loop over the results: drop_all, create_all, the empty
\* dictionaries, and the searches handed to the pool, each with the result
\* its worker finds.
RunStarts(tickers) ==
    /\ ~pool.active
    /\ Len(log) < MaxRuns
    /\ obs' = <<>>
    /\ pool' = [active |-> TRUE,
                tickers |-> tickers,
                searches |-> {_search(params) : params \in Searches(tickers)},
                tickers_to_dfs |-> [t \in tickers |-> [g \in {} |-> <<>>]],
                tickers_to_inserts |-> [t \in tickers |-> 0],
                tags_to_misses |-> [g \in Range(features_concepts) |-> 0],
                skipped_tickers |-> {},
                inserted |-> <<>>,
                err |-> ""]
    /\ out' = NotRelative
    /\ UNCHANGED <<quarterly, normalized_quarterly, quarterly_features, ret,
                   log, prev, cache>>

\* The body of the loop for one output of imap_unordered, that of any of
\* the searches not yet answered.  tickers_to_dfs[ticker] of a ticker popped is a KeyError.
ResultArrives(params) ==
    /\ pool.active
    /\ \E o \in pool.searches : o.ticker = params.ticker /\ o.tag = params.tag
    /\ LET output == CHOOSE o \in pool.searches :
                         o.ticker = params.ticker /\ o.tag = params.tag
           ticker == output.ticker
           tag == output.tag
           taken == [pool EXCEPT !.searches = pool.searches \ {output}]
       IN  IF output.result.none
           THEN /\ pool' = [taken EXCEPT
                               !.skipped_tickers = @ \cup {ticker},
                               !.tags_to_misses[tag] = @ + 1]
                /\ obs' = obs
           ELSE IF ticker \notin DOMAIN pool.tickers_to_dfs
           THEN /\ pool' = [taken EXCEPT !.active = FALSE,
                                         !.err = "KeyError"]
                /\ obs' = obs
           ELSE LET found == [g \in DOMAIN pool.tickers_to_dfs[ticker]
                                       \cup {tag} |->
                                 IF g = tag THEN output.result.df
                                 ELSE pool.tickers_to_dfs[ticker][g]]
                    dfs == InConceptOrder(found, 1)
                    df == Concat(dfs)
                IN  IF AllConceptsFound(dfs)
                    THEN /\ obs' = obs \o df
                         /\ pool' = [taken EXCEPT
                                !.tickers_to_dfs =
                                    Without(pool.tickers_to_dfs, ticker),
                                !.tickers_to_inserts[ticker] = @ + Len(df),
                                !.inserted = Append(@, ticker)]
                    ELSE /\ obs' = obs
                         /\ pool' = [taken EXCEPT
                                !.tickers_to_dfs[ticker] = found]
    /\ UNCHANGED <<quarterly, normalized_quarterly, quarterly_features, ret,
                   log, prev, cache, out>>

\* Every output was taken: the pool and the connection are closed and the
\* totals logged.
RunEnds ==
    /\ pool.active
    /\ pool.searches = {}
    /\ pool' = [pool EXCEPT !.active = FALSE]
    /\ ret' = Returned("sec.install.run", "", NoTable, NoTable,
                       Len(obs))
    /\ log' = Append(log, InstallLog("sec.install.run", pool.tickers,
                                     pool.inserted))
    /\ UNCHANGED <<quarterly, normalized_quarterly, quarterly_features, prev,
                   cache, obs, out>>

NextRun ==
    \/ \E tickers \in IndexTickers : RunStarts(tickers)
    \/ \E params \in Searches(UNION IndexTickers) : ResultArrives(params)
    \/ RunEnds

SpecRun == InitRaw /\ [][NextRun]_vars

-----------------------------------------------------------------------------
(* Properties of shark.sec.install.run.                                    *)

\* The outputs of all the searches there can be.
Outputs == {_search(params) : params \in Searches(UNION IndexTickers)}

\* A run of shark.sec.install is under way or was the last to use the pool.
RunSeen == "searches" \in DOMAIN pool

\* The outputs of the searches of a ticker, and those of them that have
\* arrived.
OutputsOf(ticker) == {o \in Outputs : o.ticker = ticker}
ArrivedOf(ticker) == OutputsOf(ticker) \ pool.searches

\* The times the rows of a ticker were inserted.
TimesInserted(ticker) ==
    Cardinality({i \in DOMAIN pool.inserted : pool.inserted[i] = ticker})

\* The rows the searches of a ticker found, over the concepts k..
RECURSIVE RowsFound(_, _)
RowsFound(ticker, k) ==
    IF k > Len(features_concepts) THEN 0
    ELSE Len(_get_valid_concept(ticker, features_concepts[k],
                                ConceptUnits(features_concepts[k])).df)
         + RowsFound(ticker, k + 1)

\* The rows of a ticker in sql.tags.
TagsOf(ticker) == SelectSeq(obs, LAMBDA r : r.cik = get_cik(ticker))

-----------------------------------------------------------------------------
(* Installing again: the filings arrive in the raw store and features are  *)
(* written before the first install, and the features and the normalized   *)
(* features are installed again and again from the same data.              *)

\* The calls of Quarterly.install and NormalizedQuarterly.install: the
\* tickers given or the candidates, the tables kept or recreated.
ReinstallCalls ==
    { [tickers |-> <<"GM", "HOG", "F">>, recreate_tables |-> FALSE],
      [tickers |-> <<"GM", "HOG", "F">>, recreate_tables |-> TRUE],
      [tickers |-> <<>>, recreate_tables |-> FALSE] }

\* A filing arrives before anything was installed.
AddFilingBeforeInstalls(filing) == log = <<>> /\ AddFiling(filing)

\* A company's features are written before anything was installed.
WriteFeaturesBeforeInstalls(ticker, filings) ==
    log = <<>> /\ WriteFeatures(ticker, filings)

\* The companies whose features are written.
ReinstallWriters == {"GM", "HOG"}

NextReinstall ==
    \/ \E filing \in Filings : AddFilingBeforeInstalls(filing)
    \/ \E ticker \in ReinstallWriters :
          \E filings \in InstallFilings(ticker) :
              WriteFeaturesBeforeInstalls(ticker, filings)
    \/ \E call \in ReinstallCalls :
          QuarterlyInstall(call.tickers, call.recreate_tables)
    \/ \E call \in ReinstallCalls :
          NormalizedInstall(call.tickers, call.recreate_tables)

SpecReinstall == InitRaw /\ [][NextReinstall]_vars

-----------------------------------------------------------------------------
(* Properties of installing again.                                         *)

\* The install before the last.
InstallBefore == log[Len(log) - 1]

\* The last install repeated the one before it: the same method for the
\* same tickers.
Reinstalled(op) ==
    /\ Len(log) >= 2
    /\ LastInstall.op = op
    /\ InstallBefore.op = op
    /\ Range(LastInstall.tickers) = Range(InstallBefore.tickers)

\* C28: with the source data as they were, a second run of
\* Quarterly.install or of NormalizedQuarterly.install for the same tickers
\* that does not recreate the table (prev, the table it starts from, is
\* the table it found) leaves the table as the first run left it, inserts
\* nothing, does not raise and returns 0.
C28_ReinstallIsIdempotent ==
    [][ /\ (Len(log') > Len(log) /\ Reinstalled("install")'
                /\ prev' = quarterly)
            => /\ quarterly' = quarterly
               /\ ret'.err = ""
               /\ ret'.n = 0
               /\ \A i \in DOMAIN LastInstall'.outcomes :
                     LastInstall'.outcomes[i].written = 0
        /\ (Len(log') > Len(log) /\ Reinstalled("normalized.install")'
                /\ prev' = normalized_quarterly)
            => /\ normalized_quarterly' = normalized_quarterly
               /\ ret'.err = ""
               /\ ret'.n = 0
               /\ \A i \in DOMAIN LastInstall'.outcomes :
                     LastInstall'.outcomes[i].written = 0 ]_vars

\* Quarterly.install ran twice for the same tickers, the first run wrote
\* rows and the second, which kept the table, was refused them.
C28_Witness ==
    /\ Reinstalled("install")
    /\ prev = quarterly
    /\ quarterly # {}
    /\ \E i \in DOMAIN InstallBefore.outcomes :
          InstallBefore.outcomes[i].written > 0
    /\ \E i \in DOMAIN LastInstall.outcomes :
          LastInstall.outcomes[i].err = "IntegrityError"
    /\ ret.op = "install"
    /\ ret.n = 0

\* NormalizedQuarterly.install ran twice for the same tickers on the same
\* features, the first run wrote rows and the second, which kept the
\* table, was refused them.
NormalizedReinstalled ==
    /\ Reinstalled("normalized.install")
    /\ prev = normalized_quarterly
    /\ normalized_quarterly # {}
    /\ \E i \in DOMAIN LastInstall.outcomes :
          LastInstall.outcomes[i].err = "IntegrityError"
    /\ ret.n = 0

-----------------------------------------------------------------------------
(* Properties of the periods of the industry's table.                      *)

\* The companies whose rows of a period and a feature name are within the
\* dates of the call.
Contributors(rows, p, name) == {r.cik : r \in GroupOfRow(rows, p, name)}

\* C30: on a feature table written by to_refined from whole rows of
\* features, IndustryQuarterly.from_refined returns at most one row per
\* (fy, fp) whatever the dates asked for: the feature names of a period
\* have the same contributing companies and so the same latest filed date.
C30_OneRowPerPeriod ==
    (IndustryAnswered /\ out.result.err = "") =>
        LET rows == RowsOfPrefix(out.result.code, out.args)
            table == out.result.rows
        IN  /\ \A i, j \in DOMAIN table :
                  <<table[i].fy, table[i].fp>> = <<table[j].fy, table[j].fp>>
                      => i = j
            /\ \A r, t \in rows :
                  <<r.fy, r.fp>> = <<t.fy, t.fp>> =>
                      /\ Contributors(rows, <<r.fy, r.fp>>, r.name)
                             = Contributors(rows, <<t.fy, t.fp>>, t.name)
                      /\ LatestFiled(GroupOfRow(rows, <<r.fy, r.fp>>, r.name))
                             = LatestFiled(GroupOfRow(rows, <<t.fy, t.fp>>,
                                                      t.name))

\* The dates asked for leave out a company's row of a period that another
\* company's row of the period, filed on another day, is within, and the
\* table has its row of the period.
C30_Witness ==
    /\ IndustryAnswered
    /\ out.result.err = ""
    /\ \E r \in RowsOfPrefix(out.result.code, out.args), t \in quarterly :
          /\ <<r.fy, r.fp, r.name>> = <<t.fy, t.fp, t.name>>
          /\ HasPrefix(SicOf(t.cik), out.result.code)
          /\ t.filed # r.filed
          /\ t \notin RowsOfPrefix(out.result.code, out.args)
          /\ \E i \in DOMAIN out.result.rows :
                <<out.result.rows[i].fy, out.result.rows[i].fp>>
                    = <<r.fy, r.fp>>

====
